---- MODULE Spec2Model ----
(***************************************************************************)
(* A model of the cel2squirrel converter (converter.go): NewConverter,     *)
(* Convert, ConvertWithAuth, the authorization walk, the depth guard, the  *)
(* predicate compiler and the LIKE pattern escaper.                        *)
(*                                                                         *)
(* Strings that the code inspects character by character (LIKE literals)   *)
(* are sequences of one-character strings.  Error texts are sequences of   *)
(* tokens: W(..) a piece of fixed text, N(..) a formatted number,          *)
(* F(..) a formatted field/function name, R(..) a formatted role list,     *)
(* T(..) a formatted Go type name.                                         *)
(*                                                                         *)
(* The expression compiler (cel-go) is external: an input text is the      *)
(* record of its raw length, the compiler's verdict on it and the typed    *)
(* AST the compiler yields for it.                                         *)
(***************************************************************************)
EXTENDS Integers, Sequences, FiniteSets, TLC

VARIABLES
    columnMappings,       \* Converter.columnMappings
    fieldDeclarations,    \* Converter.fieldDeclarations
    maxExpressionLength,  \* Converter.maxExpressionLength
    maxExpressionDepth,   \* Converter.maxExpressionDepth
    maxInClauseSize,      \* Converter.maxInClauseSize
    publicFields,         \* Converter.publicFields (the set of keys mapped to true)
    fieldACL,             \* Converter.fieldACL
    securityLogger,       \* Converter.securityLogger ("nil" or "set")
    pc,                   \* "idle": no call in progress; "done": a call has returned
    call,                 \* the last call: method, celExpr, userRoles
    ret,                  \* what the last call returned: result, err
    stages,               \* the steps the last call executed, in order
    auditLog,             \* events the last call handed to the security logger
    rendered,             \* what ToSql() of the returned predicate gave, once called
    seen,                 \* an earlier call the caller kept: its arguments and what it returned
    str,                  \* escaper harness: the input string
    escaped               \* escaper harness: escapeLikePattern(str), or <<"?">> before the call

vars == <<columnMappings, fieldDeclarations, maxExpressionLength, maxExpressionDepth,
          maxInClauseSize, publicFields, fieldACL, securityLogger, pc, call, ret,
          stages, auditLog, rendered, seen, str, escaped>>

convVars == <<columnMappings, fieldDeclarations, maxExpressionLength, maxExpressionDepth,
              maxInClauseSize, publicFields, fieldACL, securityLogger>>

callVars == <<pc, call, ret, stages, auditLog, rendered>>

escVars == <<str, escaped>>

keptVars == <<seen>>

(***************************************************************************)
(* Bounds of the model.                                                    *)
(***************************************************************************)
\* longest string given to the escaper harness
MaxStrLen == 3
\* longest generated string literal inside an expression
MaxLitLen == 1
\* the configured Config.MaxExpressionLength (when not left at 0)
LenLimit == 6
\* the configured Config.MaxExpressionDepth
DepthLimit == 3
\* the configured Config.MaxInClauseSize
InLimit == 2

(***************************************************************************)
(* Defaults applied by NewConverter to zero limits.                        *)
(***************************************************************************)
DefaultMaxExpressionLength == 10000
DefaultMaxExpressionDepth == 50
DefaultMaxInClauseSize == 1000

(***************************************************************************)
(* Small helpers.                                                          *)
(***************************************************************************)
Range(s) == {s[i] : i \in 1..Len(s)}

Max(a, b) == IF a > b THEN a ELSE b

RECURSIVE SeqsUpTo(_, _)
SeqsUpTo(A, n) ==
    IF n = 0 THEN {<<>>}
    ELSE LET shorter == SeqsUpTo(A, n - 1)
         IN  shorter \cup {<<a>> \o s : a \in A, s \in {t \in shorter : Len(t) = n - 1}}

(***************************************************************************)
(* Tokens of error texts.                                                  *)
(***************************************************************************)
W(s) == [w |-> s]
N(n) == [n |-> n]
F(f) == [f |-> f]
R(r) == [r |-> r]
T(t) == [t |-> t]

(***************************************************************************)
(* The LIKE pattern escaper.                                               *)
(***************************************************************************)
Backslash == "\\"

\* the characters the escaper treats specially
LikeSpecials == {Backslash, "%", "_", "[", "]"}

\* alphabet of the modelled strings: the five specials and one ordinary character
Alphabet == LikeSpecials \cup {"a"}

\* strings.ReplaceAll(s, old, new) for a one-character old
RECURSIVE ReplaceAll(_, _, _)
ReplaceAll(s, old, new) ==
    IF s = <<>> THEN <<>>
    ELSE (IF Head(s) = old THEN new ELSE <<Head(s)>>) \o ReplaceAll(Tail(s), old, new)

\* a plausible slip: the backslash pass runs last instead of first
escapeLikePattern_backslashLast(s) ==
    LET s1 == ReplaceAll(s, "%", <<Backslash, "%">>)
        s2 == ReplaceAll(s1, "_", <<Backslash, "_">>)
        s3 == ReplaceAll(s2, "[", <<Backslash, "[">>)
        s4 == ReplaceAll(s3, "]", <<Backslash, "]">>)
    IN  ReplaceAll(s4, Backslash, <<Backslash, Backslash>>)

escapeLikePattern(s) ==
    LET s1 == ReplaceAll(s, Backslash, <<Backslash, Backslash>>)
        s2 == ReplaceAll(s1, "%", <<Backslash, "%">>)
        s3 == ReplaceAll(s2, "_", <<Backslash, "_">>)
        s4 == ReplaceAll(s3, "[", <<Backslash, "[">>)
    IN  ReplaceAll(s4, "]", <<Backslash, "]">>)

(***************************************************************************)
(* Go values and errors.                                                   *)
(***************************************************************************)
\* an interface{} value: its dynamic type and its printed form
Value(t, v) == [t |-> t, v |-> v]

NilValue == Value("nil", <<>>)

\* a []interface{} value
ListValue(vs) == [t |-> "[]interface{}", v |-> <<>>, elems |-> vs]

\* the nil error
NoErr == [type |-> "nil"]

\* err.Error()
ErrorText(err) ==
    IF err.type = "ConversionError" THEN err.PublicMessage
    ELSE IF err.type = "error" THEN err.text
    ELSE <<>>

\* fmt.Errorf(text) without %w
Errorf(text) == [type |-> "error", text |-> text, unwrap |-> NoErr]

\* fmt.Errorf(text + ": %w", inner)
Wrapf(text, inner) == [type |-> "error", text |-> text \o ErrorText(inner), unwrap |-> inner]

\* a plausible slip: the field-bearing diagnostic is used as the public message
newConversionError_leaky(publicMsg, errorCode, internalErr) ==
    [type |-> "ConversionError", PublicMessage |-> ErrorText(internalErr),
     ErrorCode |-> errorCode, InternalError |-> internalErr]

newConversionError(publicMsg, errorCode, internalErr) ==
    [type |-> "ConversionError", PublicMessage |-> publicMsg,
     ErrorCode |-> errorCode, InternalError |-> internalErr]

(***************************************************************************)
(* The typed AST handed over by the expression compiler (exprpb.Expr).     *)
(***************************************************************************)
Nil == [kind |-> "nil"]

Const(ck, v) == [kind |-> "const", ckind |-> ck, val |-> v]

Ident(n) == [kind |-> "ident", name |-> n]

Select(op, f) == [kind |-> "select", operand |-> op, field |-> f]

Call(fn, target, args) == [kind |-> "call", function |-> fn, target |-> target, args |-> args]

List(elems) == [kind |-> "list", elements |-> elems]

Struct(entries) == [kind |-> "struct", entries |-> entries]

\* a macro expansion such as list.exists(x, cond): the iteration and accumulator
\* variables, the range iterated over and the loop step
Comprehension(iterVar, accuVar, range, step) ==
    [kind |-> "comprehension", iterVar |-> iterVar, accuVar |-> accuVar,
     iterRange |-> range, loopStep |-> step]

\* %T of expr.ExprKind
KindType(expr) ==
    CASE expr.kind = "nil" -> "<nil>"
      [] expr.kind = "const" -> "*expr.Expr_ConstExpr"
      [] expr.kind = "ident" -> "*expr.Expr_IdentExpr"
      [] expr.kind = "select" -> "*expr.Expr_SelectExpr"
      [] expr.kind = "call" -> "*expr.Expr_CallExpr"
      [] expr.kind = "list" -> "*expr.Expr_ListExpr"
      [] expr.kind = "struct" -> "*expr.Expr_StructExpr"
      [] OTHER -> "*expr.Expr_ComprehensionExpr"

(***************************************************************************)
(* Authorization walk.                                                     *)
(***************************************************************************)
\* a plausible slip: the target of a method call is not visited
RECURSIVE walkExpr_noTarget(_)
walkExpr_noTarget(expr) ==
    IF expr.kind = "nil" THEN {}
    ELSE {expr} \cup
         CASE expr.kind = "call" ->
                  UNION {walkExpr_noTarget(expr.args[i]) : i \in 1..Len(expr.args)}
           [] expr.kind = "select" -> walkExpr_noTarget(expr.operand)
           [] expr.kind = "list" ->
                  UNION {walkExpr_noTarget(expr.elements[i]) : i \in 1..Len(expr.elements)}
           [] expr.kind = "struct" ->
                  UNION {walkExpr_noTarget(expr.entries[i].key)
                             \cup walkExpr_noTarget(expr.entries[i].value)
                                 : i \in 1..Len(expr.entries)}
           [] OTHER -> {}

\* the nodes walkExpr hands to fn
RECURSIVE walkExpr(_)
walkExpr(expr) ==
    IF expr.kind = "nil" THEN {}
    ELSE {expr} \cup
         CASE expr.kind = "call" ->
                  walkExpr(expr.target)
                      \cup UNION {walkExpr(expr.args[i]) : i \in 1..Len(expr.args)}
           [] expr.kind = "select" -> walkExpr(expr.operand)
           [] expr.kind = "list" ->
                  UNION {walkExpr(expr.elements[i]) : i \in 1..Len(expr.elements)}
           [] expr.kind = "struct" ->
                  UNION {walkExpr(expr.entries[i].key) \cup walkExpr(expr.entries[i].value)
                             : i \in 1..Len(expr.entries)}
           [] OTHER -> {}

\* the key set of the map built by extractReferencedFields; the order in which
\* the returned slice lists it is the map's iteration order, which Go leaves open
extractReferencedFields(expr) ==
    {e.name : e \in {x \in walkExpr(expr) : x.kind = "ident"}}
        \cup {e.field : e \in {x \in walkExpr(expr) : x.kind = "select"}}

\* the slices a range over a Go map with key set S can produce
RECURSIVE MapOrders(_)
MapOrders(S) ==
    IF S = {} THEN {<<>>}
    ELSE UNION {{<<x>> \o rest : rest \in MapOrders(S \ {x})} : x \in S}

isFieldAuthorized(field, userRoles) ==
    \/ field \in publicFields
    \/ /\ field \in DOMAIN fieldACL
       /\ \E i \in 1..Len(userRoles) : \E j \in 1..Len(fieldACL[field]) :
              userRoles[i] = fieldACL[field][j]

(***************************************************************************)
(* Depth guard.                                                            *)
(***************************************************************************)
RECURSIVE SeqMax(_, _)
SeqMax(s, m) == IF s = <<>> THEN m ELSE SeqMax(Tail(s), Max(m, Head(s)))

\* a plausible slip: the target of a method call is not measured
RECURSIVE calculateExpressionDepth_noTarget(_)
calculateExpressionDepth_noTarget(expr) ==
    CASE expr.kind = "nil" -> 0
      [] expr.kind = "call" ->
             SeqMax([i \in 1..Len(expr.args) |->
                        calculateExpressionDepth_noTarget(expr.args[i])], 0) + 1
      [] expr.kind = "select" -> calculateExpressionDepth_noTarget(expr.operand) + 1
      [] expr.kind = "list" ->
             SeqMax([i \in 1..Len(expr.elements) |->
                        calculateExpressionDepth_noTarget(expr.elements[i])], 0) + 1
      [] expr.kind = "struct" ->
             SeqMax([i \in 1..Len(expr.entries) |->
                        Max(calculateExpressionDepth_noTarget(expr.entries[i].key),
                            calculateExpressionDepth_noTarget(expr.entries[i].value))], 0) + 1
      [] OTHER -> 1

RECURSIVE calculateExpressionDepth(_)
calculateExpressionDepth(expr) ==
    CASE expr.kind = "nil" -> 0
      [] expr.kind = "call" ->
             SeqMax([i \in 1..Len(expr.args) |-> calculateExpressionDepth(expr.args[i])],
                    Max(0, calculateExpressionDepth(expr.target))) + 1
      [] expr.kind = "select" -> calculateExpressionDepth(expr.operand) + 1
      [] expr.kind = "list" ->
             SeqMax([i \in 1..Len(expr.elements) |->
                        calculateExpressionDepth(expr.elements[i])], 0) + 1
      [] expr.kind = "struct" ->
             SeqMax([i \in 1..Len(expr.entries) |->
                        Max(calculateExpressionDepth(expr.entries[i].key),
                            calculateExpressionDepth(expr.entries[i].value))], 0) + 1
      [] OTHER -> 1

(***************************************************************************)
(* Predicates (squirrel.Sqlizer values) built by the predicate compiler.   *)
(***************************************************************************)
NilSqlizer == [kind |-> "nil"]

\* squirrel.Eq / NotEq / Lt / LtOrEq / Gt / GtOrEq / Like {column: value}
Cmp(k, column, value) == [kind |-> k, column |-> column, value |-> value]

\* squirrel.And{left, right}
And(left, right) == [kind |-> "And", parts |-> <<left, right>>]

\* squirrel.Or{left, right}
Or(left, right) == [kind |-> "Or", parts |-> <<left, right>>]

\* &notSqlizer{inner: inner}
notSqlizer(inner) == [kind |-> "notSqlizer", inner |-> inner]

\* squirrel.Expr(sql)
Expr(sql) == [kind |-> "Expr", sql |-> sql]

\* (sqlizer, err) of the conversion functions, with the events they logged
Ok(sqlizer) == [sqlizer |-> sqlizer, err |-> NoErr, log |-> <<>>]

Fail(err) == [sqlizer |-> NilSqlizer, err |-> err, log |-> <<>>]

(***************************************************************************)
(* Schema lookups and leaf extraction.                                     *)
(***************************************************************************)
mapFieldName(field) ==
    IF field \in DOMAIN columnMappings THEN columnMappings[field] ELSE field

\* (string, error)
getFieldName(expr) ==
    IF expr.kind = "ident" THEN [field |-> expr.name, err |-> NoErr]
    ELSE IF expr.kind = "select" THEN [field |-> expr.field, err |-> NoErr]
    ELSE [field |-> "",
          err |-> Errorf(<<W("expression is not a field identifier:"), T(KindType(expr))>>)]

\* a plausible slip: the null literal yields the protobuf NullValue enum
\* instead of the untyped nil
getConstantValue_protoNull(expr) ==
    IF expr.kind # "const"
    THEN [value |-> NilValue,
          err |-> Errorf(<<W("expression is not a constant:"), T(KindType(expr))>>)]
    ELSE CASE expr.ckind = "bool" -> [value |-> Value("bool", expr.val), err |-> NoErr]
           [] expr.ckind = "int64" -> [value |-> Value("int64", expr.val), err |-> NoErr]
           [] expr.ckind = "uint64" -> [value |-> Value("uint64", expr.val), err |-> NoErr]
           [] expr.ckind = "double" -> [value |-> Value("float64", expr.val), err |-> NoErr]
           [] expr.ckind = "string" -> [value |-> Value("string", expr.val), err |-> NoErr]
           [] expr.ckind = "null" ->
                  [value |-> Value("structpb.NullValue", <<"0">>), err |-> NoErr]
           [] OTHER -> [value |-> NilValue,
                        err |-> Errorf(<<W("unsupported constant type:"),
                                         T("*expr.Constant_BytesValue")>>)]

\* (interface{}, error)
getConstantValue(expr) ==
    IF expr.kind # "const"
    THEN [value |-> NilValue,
          err |-> Errorf(<<W("expression is not a constant:"), T(KindType(expr))>>)]
    ELSE CASE expr.ckind = "bool" -> [value |-> Value("bool", expr.val), err |-> NoErr]
           [] expr.ckind = "int64" -> [value |-> Value("int64", expr.val), err |-> NoErr]
           [] expr.ckind = "uint64" -> [value |-> Value("uint64", expr.val), err |-> NoErr]
           [] expr.ckind = "double" -> [value |-> Value("float64", expr.val), err |-> NoErr]
           [] expr.ckind = "string" -> [value |-> Value("string", expr.val), err |-> NoErr]
           [] expr.ckind = "null" -> [value |-> NilValue, err |-> NoErr]
           [] OTHER -> [value |-> NilValue,
                        err |-> Errorf(<<W("unsupported constant type:"),
                                         T("*expr.Constant_BytesValue")>>)]

\* the values of elements 1..n, or the first failure among them
RECURSIVE listElements(_, _)
listElements(elements, n) ==
    IF n = 0 THEN [values |-> <<>>, err |-> NoErr]
    ELSE LET init == listElements(elements, n - 1)
             val == getConstantValue(elements[n])
         IN  IF init.err.type # "nil" THEN init
             ELSE IF val.err.type # "nil"
             THEN [values |-> <<>>,
                   err |-> Wrapf(<<W("failed to get list element"), N(n - 1), W(":")>>, val.err)]
             ELSE [values |-> Append(init.values, val.value), err |-> NoErr]

\* a plausible slip: the size is tested after the elements have been read
getListValues_sizeAfter(expr) ==
    IF expr.kind # "list"
    THEN [values |-> <<>>,
          err |-> Errorf(<<W("expression is not a list:"), T(KindType(expr))>>)]
    ELSE LET got == listElements(expr.elements, Len(expr.elements))
         IN  IF got.err.type # "nil" THEN got
             ELSE IF Len(expr.elements) > maxInClauseSize
             THEN [values |-> <<>>,
                   err |-> Errorf(<<W("IN clause size"), N(Len(expr.elements)),
                                    W("exceeds maximum of"), N(maxInClauseSize)>>)]
             ELSE got

\* a plausible slip: the values are stored from the back of the slice
getListValues_reversed(expr) ==
    IF expr.kind # "list"
    THEN [values |-> <<>>,
          err |-> Errorf(<<W("expression is not a list:"), T(KindType(expr))>>)]
    ELSE IF Len(expr.elements) > maxInClauseSize
    THEN [values |-> <<>>,
          err |-> Errorf(<<W("IN clause size"), N(Len(expr.elements)),
                           W("exceeds maximum of"), N(maxInClauseSize)>>)]
    ELSE LET got == listElements(expr.elements, Len(expr.elements))
         IN  [values |-> [i \in 1..Len(got.values) |-> got.values[Len(got.values) + 1 - i]],
              err |-> got.err]

\* ([]interface{}, error)
getListValues(expr) ==
    IF expr.kind # "list"
    THEN [values |-> <<>>,
          err |-> Errorf(<<W("expression is not a list:"), T(KindType(expr))>>)]
    ELSE IF Len(expr.elements) > maxInClauseSize
    THEN [values |-> <<>>,
          err |-> Errorf(<<W("IN clause size"), N(Len(expr.elements)),
                           W("exceeds maximum of"), N(maxInClauseSize)>>)]
    ELSE listElements(expr.elements, Len(expr.elements))

\* the Go type each checked declared type requires of a value
RequiredGoType ==
    [string |-> "string", int |-> "int64", double |-> "float64",
     bool |-> "bool", uint |-> "uint64"]

\* error (NoErr when compatible)
validateTypeCompatibility(fieldName, value) ==
    IF fieldName \notin DOMAIN fieldDeclarations THEN NoErr
    ELSE LET fieldType == fieldDeclarations[fieldName].Type
         IN  IF fieldType = "nil" THEN NoErr
             ELSE IF fieldType \notin DOMAIN RequiredGoType THEN NoErr
             ELSE IF value.t = RequiredGoType[fieldType] THEN NoErr
             ELSE Errorf(<<W("expected"), W(fieldType), W(", got"), T(value.t)>>)

(***************************************************************************)
(* The predicate compiler.                                                 *)
(***************************************************************************)
RECURSIVE convertExpr(_)

\* a plausible slip: a failure of the right operand is dropped and the left
\* predicate is returned alone
convertLogicalAnd_dropRight(args) ==
    IF Len(args) # 2
    THEN Fail(Errorf(<<W("AND operator requires exactly 2 arguments, got"), N(Len(args))>>))
    ELSE LET left == convertExpr(args[1])
             right == convertExpr(args[2])
         IN  IF left.err.type # "nil" THEN left
             ELSE IF right.err.type # "nil"
             THEN [sqlizer |-> left.sqlizer, err |-> NoErr, log |-> left.log \o right.log]
             ELSE [sqlizer |-> And(left.sqlizer, right.sqlizer), err |-> NoErr,
                   log |-> left.log \o right.log]

convertLogicalAnd(args) ==
    IF Len(args) # 2
    THEN Fail(Errorf(<<W("AND operator requires exactly 2 arguments, got"), N(Len(args))>>))
    ELSE LET left == convertExpr(args[1])
             right == convertExpr(args[2])
         IN  IF left.err.type # "nil" THEN left
             ELSE IF right.err.type # "nil"
             THEN [sqlizer |-> NilSqlizer, err |-> right.err, log |-> left.log \o right.log]
             ELSE [sqlizer |-> And(left.sqlizer, right.sqlizer), err |-> NoErr,
                   log |-> left.log \o right.log]

convertLogicalOr(args) ==
    IF Len(args) # 2
    THEN Fail(Errorf(<<W("OR operator requires exactly 2 arguments, got"), N(Len(args))>>))
    ELSE LET left == convertExpr(args[1])
             right == convertExpr(args[2])
         IN  IF left.err.type # "nil" THEN left
             ELSE IF right.err.type # "nil"
             THEN [sqlizer |-> NilSqlizer, err |-> right.err, log |-> left.log \o right.log]
             ELSE [sqlizer |-> Or(left.sqlizer, right.sqlizer), err |-> NoErr,
                   log |-> left.log \o right.log]

\* a plausible slip: the arity fault is reported as a user-facing ConversionError
convertLogicalNot_codedArity(args) ==
    IF Len(args) # 1
    THEN Fail(newConversionError(<<W("invalid filter expression syntax")>>, "INVALID_SYNTAX",
                  Errorf(<<W("NOT operator requires exactly 1 argument, got"),
                           N(Len(args))>>)))
    ELSE LET inner == convertExpr(args[1])
         IN  IF inner.err.type # "nil" THEN inner
             ELSE [sqlizer |-> notSqlizer(inner.sqlizer), err |-> NoErr, log |-> inner.log]

convertLogicalNot(args) ==
    IF Len(args) # 1
    THEN Fail(Errorf(<<W("NOT operator requires exactly 1 argument, got"), N(Len(args))>>))
    ELSE LET inner == convertExpr(args[1])
         IN  IF inner.err.type # "nil" THEN inner
             ELSE [sqlizer |-> notSqlizer(inner.sqlizer), err |-> NoErr, log |-> inner.log]

\* the squirrel type convertComparison builds for each operator text
ComparisonKind ==
    [x \in {"=", "==", "!=", "<", "<=", ">", ">="} |->
        CASE x \in {"=", "=="} -> "Eq"
          [] x = "!=" -> "NotEq"
          [] x = "<" -> "Lt"
          [] x = "<=" -> "LtOrEq"
          [] x = ">" -> "Gt"
          [] OTHER -> "GtOrEq"]

\* a plausible slip: an equality is built as SQL text with the value written into it
convertComparison_inline(args, op) ==
    IF Len(args) # 2
    THEN Fail(Errorf(<<W("comparison operator requires exactly 2 arguments, got"),
                       N(Len(args))>>))
    ELSE LET fld == getFieldName(args[1])
             column == mapFieldName(fld.field)
             val == getConstantValue(args[2])
             mismatch == validateTypeCompatibility(fld.field, val.value)
         IN  IF fld.err.type # "nil" THEN Fail(fld.err)
             ELSE IF val.err.type # "nil" THEN Fail(val.err)
             ELSE IF val.value # NilValue /\ mismatch.type # "nil"
             THEN Fail(newConversionError(
                      <<W("invalid comparison type")>>, "TYPE_MISMATCH",
                      Wrapf(<<W("type mismatch for field"), F(fld.field), W(":")>>, mismatch)))
             ELSE IF op \in {"=", "=="} /\ val.value # NilValue
             THEN Ok([kind |-> "Expr", sql |-> "column = 'value'", column |-> column,
                      value |-> val.value])
             ELSE IF op \in DOMAIN ComparisonKind
             THEN Ok(Cmp(ComparisonKind[op], column, val.value))
             ELSE Fail(Errorf(<<W("unsupported comparison operator:"), W(op)>>))

convertComparison(args, op) ==
    IF Len(args) # 2
    THEN Fail(Errorf(<<W("comparison operator requires exactly 2 arguments, got"),
                       N(Len(args))>>))
    ELSE LET fld == getFieldName(args[1])
             column == mapFieldName(fld.field)
             val == getConstantValue(args[2])
             mismatch == validateTypeCompatibility(fld.field, val.value)
         IN  IF fld.err.type # "nil" THEN Fail(fld.err)
             ELSE IF val.err.type # "nil" THEN Fail(val.err)
             ELSE IF val.value # NilValue /\ mismatch.type # "nil"
             THEN Fail(newConversionError(
                      <<W("invalid comparison type")>>, "TYPE_MISMATCH",
                      Wrapf(<<W("type mismatch for field"), F(fld.field), W(":")>>, mismatch)))
             ELSE IF op \in DOMAIN ComparisonKind
             THEN Ok(Cmp(ComparisonKind[op], column, val.value))
             ELSE Fail(Errorf(<<W("unsupported comparison operator:"), W(op)>>))

convertInOperator(args) ==
    IF Len(args) # 2
    THEN Fail(Errorf(<<W("IN operator requires exactly 2 arguments, got"), N(Len(args))>>))
    ELSE LET fld == getFieldName(args[1])
             column == mapFieldName(fld.field)
             list == getListValues(args[2])
         IN  IF fld.err.type # "nil" THEN Fail(fld.err)
             ELSE IF list.err.type # "nil" THEN Fail(list.err)
             ELSE Ok(Cmp("Eq", column, ListValue(list.values)))

\* a plausible slip: the wildcard markers are added before escaping
convertStringOp_wrapFirst(call_, name, prefix, suffix) ==
    IF Len(call_.args) # 1
    THEN Fail(Errorf(<<W(name), W("() requires exactly 1 argument, got"),
                       N(Len(call_.args))>>))
    ELSE LET fld == getFieldName(call_.target)
             column == mapFieldName(fld.field)
             val == getConstantValue(call_.args[1])
         IN  IF fld.err.type # "nil" THEN Fail(fld.err)
             ELSE IF val.err.type # "nil" THEN Fail(val.err)
             ELSE IF val.value.t # "string"
             THEN Fail(Errorf(<<W(name), W("() requires string argument, got"),
                                T(val.value.t)>>))
             ELSE Ok(Cmp("Like", column,
                         Value("string", escapeLikePattern(prefix \o val.value.v \o suffix))))

\* the common body of convertContains / convertStartsWith / convertEndsWith:
\* name is the function's name, prefix and suffix the wildcard markers it adds
convertStringOp(call_, name, prefix, suffix) ==
    IF Len(call_.args) # 1
    THEN Fail(Errorf(<<W(name), W("() requires exactly 1 argument, got"),
                       N(Len(call_.args))>>))
    ELSE LET fld == getFieldName(call_.target)
             column == mapFieldName(fld.field)
             val == getConstantValue(call_.args[1])
         IN  IF fld.err.type # "nil" THEN Fail(fld.err)
             ELSE IF val.err.type # "nil" THEN Fail(val.err)
             ELSE IF val.value.t # "string"
             THEN Fail(Errorf(<<W(name), W("() requires string argument, got"),
                                T(val.value.t)>>))
             ELSE Ok(Cmp("Like", column,
                         Value("string", prefix \o escapeLikePattern(val.value.v) \o suffix)))

convertContains(call_) == convertStringOp(call_, "contains", <<"%">>, <<"%">>)

convertStartsWith(call_) == convertStringOp(call_, "startsWith", <<>>, <<"%">>)

convertEndsWith(call_) == convertStringOp(call_, "endsWith", <<"%">>, <<>>)

\* a plausible slip: the literal's value is not looked at
convertConstExpr_alwaysTrue(constExpr) ==
    IF constExpr.ckind = "bool"
    THEN Ok(Expr("TRUE"))
    ELSE Fail(Errorf(<<W("unsupported constant type at top level:"),
                       T(constExpr.ckind)>>))

convertConstExpr(constExpr) ==
    IF constExpr.ckind = "bool"
    THEN Ok(Expr(IF constExpr.val = <<"true">> THEN "TRUE" ELSE "FALSE"))
    ELSE Fail(Errorf(<<W("unsupported constant type at top level:"),
                       T(constExpr.ckind)>>))

\* the operator text convertCallExpr passes to convertComparison
ComparisonFunctions ==
    [x \in {"_==_", "_!=_", "_<_", "_<=_", "_>_", "_>=_"} |->
        CASE x = "_==_" -> "="
          [] x = "_!=_" -> "!="
          [] x = "_<_" -> "<"
          [] x = "_<=_" -> "<="
          [] x = "_>_" -> ">"
          [] OTHER -> ">="]

convertCallExpr(call_) ==
    LET function == call_.function
    IN  CASE function = "_&&_" -> convertLogicalAnd(call_.args)
          [] function = "_||_" -> convertLogicalOr(call_.args)
          [] function = "!_" -> convertLogicalNot(call_.args)
          [] function \in DOMAIN ComparisonFunctions ->
                 convertComparison(call_.args, ComparisonFunctions[function])
          [] function = "@in" -> convertInOperator(call_.args)
          [] function = "contains" -> convertContains(call_)
          [] function = "startsWith" -> convertStartsWith(call_)
          [] function = "endsWith" -> convertEndsWith(call_)
          [] OTHER ->
                 [sqlizer |-> NilSqlizer,
                  err |-> newConversionError(
                              <<W("unsupported filter operation")>>, "UNSUPPORTED_OPERATION",
                              Errorf(<<W("unsupported CEL function:"), F(function)>>)),
                  log |-> IF securityLogger # "nil"
                          THEN <<[event |-> "LogUnsupportedOperation", operation |-> function]>>
                          ELSE <<>>]

convertExpr(expr) ==
    CASE expr.kind = "nil" -> Fail(Errorf(<<W("nil expression")>>))
      [] expr.kind = "call" -> convertCallExpr(expr)
      [] expr.kind = "ident" -> Ok(Cmp("Eq", mapFieldName(expr.name), Value("bool", <<"true">>)))
      [] expr.kind = "const" -> convertConstExpr(expr)
      [] OTHER -> Fail(Errorf(<<W("unsupported expression type:"), T(KindType(expr))>>))

(***************************************************************************)
(* Rendering: Sqlizer.ToSql() of the predicates.  notSqlizer.ToSql is the  *)
(* converter's; the others are the query builder's (squirrel), rendered as *)
(* the tests of the converter observe them.  A rendered text is a sequence *)
(* of tokens: Col(c) a column name, Op(s) fixed SQL text, Placeholder.     *)
(***************************************************************************)
Col(c) == [col |-> c]

Op(s) == [op |-> s]

Placeholder == [ph |-> "?"]

\* (string, []interface{}, error)
Rendered(sql, args) == [sql |-> sql, args |-> args, err |-> NoErr]

RenderFailed(err) == [sql |-> <<>>, args |-> <<>>, err |-> err]

\* squirrel.Placeholders(n): "?,?,...,?"
RECURSIVE Placeholders(_)
Placeholders(n) ==
    IF n = 0 THEN <<>>
    ELSE IF n = 1 THEN <<Placeholder>>
    ELSE Placeholders(n - 1) \o <<Op(","), Placeholder>>

IsListValue(value) == value.t = "[]interface{}"

\* squirrel.Eq / squirrel.NotEq: equalOpr, inOpr, nullOpr, inEmptyExpr
EqToSql(sqlizer, equalOpr, inOpr, nullOpr, inEmptyExpr) ==
    IF sqlizer.value = NilValue
    THEN Rendered(<<Col(sqlizer.column), Op(nullOpr), Op("NULL")>>, <<>>)
    ELSE IF IsListValue(sqlizer.value)
    THEN IF Len(sqlizer.value.elems) = 0
         THEN Rendered(<<Op(inEmptyExpr)>>, <<>>)
         ELSE Rendered(<<Col(sqlizer.column), Op(inOpr), Op("(")>>
                           \o Placeholders(Len(sqlizer.value.elems)) \o <<Op(")")>>,
                       sqlizer.value.elems)
    ELSE Rendered(<<Col(sqlizer.column), Op(equalOpr), Placeholder>>, <<sqlizer.value>>)

\* squirrel.Lt / LtOrEq / Gt / GtOrEq
LtToSql(sqlizer, opr) ==
    IF sqlizer.value = NilValue
    THEN RenderFailed(Errorf(<<W("cannot use null with less than or greater than operators")>>))
    ELSE IF IsListValue(sqlizer.value)
    THEN RenderFailed(Errorf(
             <<W("cannot use array or slice with less than or greater than operators")>>))
    ELSE Rendered(<<Col(sqlizer.column), Op(opr), Placeholder>>, <<sqlizer.value>>)

\* squirrel.Like
LikeToSql(sqlizer) ==
    IF sqlizer.value = NilValue
    THEN RenderFailed(Errorf(<<W("cannot use null with like operators")>>))
    ELSE IF IsListValue(sqlizer.value)
    THEN RenderFailed(Errorf(<<W("cannot use array or slice with like operators")>>))
    ELSE Rendered(<<Col(sqlizer.column), Op("LIKE"), Placeholder>>, <<sqlizer.value>>)

\* the join of squirrel.And / squirrel.Or over already rendered parts:
\* "(" part sep part ... ")", the arguments of the parts in order, or the
\* first failure among the parts
RECURSIVE JoinParts(_, _)
JoinParts(parts, sep) ==
    IF parts = <<>> THEN Rendered(<<>>, <<>>)
    ELSE LET n == Len(parts)
             init == JoinParts(SubSeq(parts, 1, n - 1), sep)
             last == parts[n]
         IN  IF init.err.type # "nil" THEN init
             ELSE IF last.err.type # "nil" THEN RenderFailed(last.err)
             ELSE Rendered(init.sql \o (IF n > 1 THEN <<Op(sep)>> ELSE <<>>) \o last.sql,
                           init.args \o last.args)

ConjToSql(parts, sep, defaultExpr) ==
    IF parts = <<>> THEN Rendered(<<Op(defaultExpr)>>, <<>>)
    ELSE LET joined == JoinParts(parts, sep)
         IN  IF joined.err.type # "nil" THEN joined
             ELSE Rendered(<<Op("(")>> \o joined.sql \o <<Op(")")>>, joined.args)

\* a plausible slip: the NOT wrapper is left out
notSqlizerToSql_noWrap(inner) ==
    IF inner.err.type # "nil" THEN RenderFailed(inner.err)
    ELSE Rendered(inner.sql, inner.args)

\* (n *notSqlizer) ToSql(), inner being what n.inner.ToSql() returned
notSqlizerToSql(inner) ==
    IF inner.err.type # "nil" THEN RenderFailed(inner.err)
    ELSE Rendered(<<Op("NOT"), Op("(")>> \o inner.sql \o <<Op(")")>>, inner.args)

RECURSIVE ToSql(_)
ToSql(sqlizer) ==
    CASE sqlizer.kind = "Eq" -> EqToSql(sqlizer, "=", "IN", "IS", "(1=0)")
      [] sqlizer.kind = "NotEq" -> EqToSql(sqlizer, "<>", "NOT IN", "IS NOT", "(1=1)")
      [] sqlizer.kind = "Lt" -> LtToSql(sqlizer, "<")
      [] sqlizer.kind = "LtOrEq" -> LtToSql(sqlizer, "<=")
      [] sqlizer.kind = "Gt" -> LtToSql(sqlizer, ">")
      [] sqlizer.kind = "GtOrEq" -> LtToSql(sqlizer, ">=")
      [] sqlizer.kind = "Like" -> LikeToSql(sqlizer)
      [] sqlizer.kind = "And" ->
             ConjToSql([i \in 1..Len(sqlizer.parts) |-> ToSql(sqlizer.parts[i])],
                       "AND", "(1=1)")
      [] sqlizer.kind = "Or" ->
             ConjToSql([i \in 1..Len(sqlizer.parts) |-> ToSql(sqlizer.parts[i])],
                       "OR", "(1=0)")
      [] sqlizer.kind = "notSqlizer" -> notSqlizerToSql(ToSql(sqlizer.inner))
      [] OTHER -> Rendered(<<Op(sqlizer.sql)>>, <<>>)

(***************************************************************************)
(* Construction.                                                           *)
(***************************************************************************)
\* a plausible slip: the column of a field is stored only when the field has a Type
NewConverter_typedOnly(config) ==
    [columnMappings |->
         [name \in {n \in DOMAIN config.FieldDeclarations :
                        config.FieldDeclarations[n].Type # "nil"} |->
             IF config.FieldDeclarations[name].Column # ""
             THEN config.FieldDeclarations[name].Column
             ELSE name],
     fieldDeclarations |-> config.FieldDeclarations,
     maxExpressionLength |->
         IF config.MaxExpressionLength = 0 THEN DefaultMaxExpressionLength
         ELSE config.MaxExpressionLength,
     maxExpressionDepth |->
         IF config.MaxExpressionDepth = 0 THEN DefaultMaxExpressionDepth
         ELSE config.MaxExpressionDepth,
     maxInClauseSize |->
         IF config.MaxInClauseSize = 0 THEN DefaultMaxInClauseSize
         ELSE config.MaxInClauseSize,
     publicFields |-> Range(config.PublicFields),
     fieldACL |-> config.FieldACL,
     securityLogger |-> "nil"]

\* the Converter NewConverter(config) returns (cel.NewEnv accepts every
\* declaration set of the model, so the error return is not taken)
NewConverter(config) ==
    [columnMappings |->
         [name \in DOMAIN config.FieldDeclarations |->
             IF config.FieldDeclarations[name].Column # ""
             THEN config.FieldDeclarations[name].Column
             ELSE name],
     fieldDeclarations |-> config.FieldDeclarations,
     maxExpressionLength |->
         IF config.MaxExpressionLength = 0 THEN DefaultMaxExpressionLength
         ELSE config.MaxExpressionLength,
     maxExpressionDepth |->
         IF config.MaxExpressionDepth = 0 THEN DefaultMaxExpressionDepth
         ELSE config.MaxExpressionDepth,
     maxInClauseSize |->
         IF config.MaxInClauseSize = 0 THEN DefaultMaxInClauseSize
         ELSE config.MaxInClauseSize,
     publicFields |-> Range(config.PublicFields),
     fieldACL |-> config.FieldACL,
     securityLogger |-> "nil"]

(***************************************************************************)
(* Convert and ConvertWithAuth.                                            *)
(***************************************************************************)
NilResult == [kind |-> "nil"]

\* &ConvertResult{Where: sqlizer, Args: []interface{}{}}
ConvertResult(sqlizer) == [kind |-> "ConvertResult", Where |-> sqlizer, Args |-> <<>>]

\* what a call returns, the steps it took and the events it logged
Outcome(result, err, steps, log) ==
    [result |-> result, err |-> err, stages |-> steps, log |-> log]

LengthError(celExpr) ==
    Errorf(<<W("expression exceeds maximum length of"), N(maxExpressionLength),
             W("characters (got"), N(celExpr.len), W(")")>>)

SyntaxError ==
    newConversionError(<<W("invalid filter expression syntax")>>, "INVALID_SYNTAX",
                       Errorf(<<W("CEL compilation failed:"), W("<compiler issues>")>>))

TypeError ==
    newConversionError(<<W("filter expression must evaluate to boolean")>>, "INVALID_TYPE",
                       Errorf(<<W("expected boolean, got"), T("<output type>")>>))

DepthError(depth) ==
    Errorf(<<W("expression exceeds maximum depth of"), N(maxExpressionDepth),
             W("(got"), N(depth), W(")")>>)

\* the tail shared by both entry points: convertExpr and the wrapping of its outcome
ConvertTail(celExpr, steps, log) ==
    LET conv == convertExpr(celExpr.ast)
    IN  IF conv.err.type # "nil"
        THEN Outcome(NilResult, Wrapf(<<W("failed to convert CEL to SQL:")>>, conv.err),
                     Append(steps, "convertExpr"), log \o conv.log)
        ELSE Outcome(ConvertResult(conv.sqlizer), NoErr,
                     Append(steps, "convertExpr"), log \o conv.log)

\* a plausible slip: the length test is >= instead of >
Convert_lengthOffByOne(celExpr) ==
    IF celExpr.len >= maxExpressionLength
    THEN Outcome(NilResult, LengthError(celExpr), <<"length">>, <<>>)
    ELSE IF celExpr.compile = "error"
    THEN Outcome(NilResult, SyntaxError, <<"length", "Compile">>, <<>>)
    ELSE IF celExpr.compile = "nonbool"
    THEN Outcome(NilResult, TypeError, <<"length", "Compile", "OutputType">>, <<>>)
    ELSE LET depth == calculateExpressionDepth(celExpr.ast)
             steps == <<"length", "Compile", "OutputType", "depth">>
         IN  IF depth > maxExpressionDepth
             THEN Outcome(NilResult, DepthError(depth), steps, <<>>)
             ELSE ConvertTail(celExpr, steps, <<>>)

\* a plausible slip: the depth test is skipped
Convert_noDepthCheck(celExpr) ==
    IF celExpr.len > maxExpressionLength
    THEN Outcome(NilResult, LengthError(celExpr), <<"length">>, <<>>)
    ELSE IF celExpr.compile = "error"
    THEN Outcome(NilResult, SyntaxError, <<"length", "Compile">>, <<>>)
    ELSE IF celExpr.compile = "nonbool"
    THEN Outcome(NilResult, TypeError, <<"length", "Compile", "OutputType">>, <<>>)
    ELSE ConvertTail(celExpr, <<"length", "Compile", "OutputType">>, <<>>)

Convert(celExpr) ==
    IF celExpr.len > maxExpressionLength
    THEN Outcome(NilResult, LengthError(celExpr), <<"length">>, <<>>)
    ELSE IF celExpr.compile = "error"
    THEN Outcome(NilResult, SyntaxError, <<"length", "Compile">>, <<>>)
    ELSE IF celExpr.compile = "nonbool"
    THEN Outcome(NilResult, TypeError, <<"length", "Compile", "OutputType">>, <<>>)
    ELSE LET depth == calculateExpressionDepth(celExpr.ast)
             steps == <<"length", "Compile", "OutputType", "depth">>
             log == IF securityLogger # "nil"
                       /\ (depth > maxExpressionDepth \div 2
                           \/ celExpr.len > maxExpressionLength \div 2)
                    THEN <<[event |-> "LogComplexExpression", depth |-> depth,
                            length |-> celExpr.len]>>
                    ELSE <<>>
         IN  IF depth > maxExpressionDepth
             THEN Outcome(NilResult, DepthError(depth), steps, <<>>)
             ELSE ConvertTail(celExpr, steps, log)

\* the fields of referencedFields that fail isFieldAuthorized, in slice order
Unauthorized(referencedFields, userRoles) ==
    SelectSeq(referencedFields, LAMBDA f : ~isFieldAuthorized(f, userRoles))

UnauthorizedError(field, userRoles) ==
    newConversionError(
        <<W("access denied: insufficient permissions for requested filter")>>,
        "UNAUTHORIZED_FIELD",
        Errorf(<<W("user with roles"), R(userRoles),
                 W("attempted to filter by restricted field:"), F(field)>>))

\* a plausible slip: authorization counts as unconfigured when PublicFields is empty
ConvertWithAuth_publicFieldsOnly(celExpr, userRoles, referencedFields) ==
    IF Cardinality(publicFields) = 0
    THEN Convert(celExpr)
    ELSE IF celExpr.len > maxExpressionLength
    THEN Outcome(NilResult, LengthError(celExpr), <<"length">>, <<>>)
    ELSE IF celExpr.compile = "error"
    THEN Outcome(NilResult, SyntaxError, <<"length", "Compile">>, <<>>)
    ELSE IF celExpr.compile = "nonbool"
    THEN Outcome(NilResult, TypeError, <<"length", "Compile", "OutputType">>, <<>>)
    ELSE LET denied == Unauthorized(referencedFields, userRoles)
             depth == calculateExpressionDepth(celExpr.ast)
             authSteps == <<"length", "Compile", "OutputType", "authorization">>
         IN  IF denied # <<>>
             THEN Outcome(NilResult, UnauthorizedError(denied[1], userRoles), authSteps,
                          IF securityLogger # "nil"
                          THEN <<[event |-> "LogUnauthorizedField", expr |-> celExpr,
                                  field |-> denied[1], userRoles |-> userRoles]>>
                          ELSE <<>>)
             ELSE IF depth > maxExpressionDepth
             THEN Outcome(NilResult, DepthError(depth), Append(authSteps, "depth"), <<>>)
             ELSE ConvertTail(celExpr, Append(authSteps, "depth"), <<>>)

\* a plausible slip: the loop over the referenced fields ends after its first round
ConvertWithAuth_firstFieldOnly(celExpr, userRoles, referencedFields) ==
    IF Cardinality(publicFields) = 0 /\ Cardinality(DOMAIN fieldACL) = 0
    THEN Convert(celExpr)
    ELSE IF celExpr.len > maxExpressionLength
    THEN Outcome(NilResult, LengthError(celExpr), <<"length">>, <<>>)
    ELSE IF celExpr.compile = "error"
    THEN Outcome(NilResult, SyntaxError, <<"length", "Compile">>, <<>>)
    ELSE IF celExpr.compile = "nonbool"
    THEN Outcome(NilResult, TypeError, <<"length", "Compile", "OutputType">>, <<>>)
    ELSE LET denied == Unauthorized(SubSeq(referencedFields, 1, 1), userRoles)
             depth == calculateExpressionDepth(celExpr.ast)
             authSteps == <<"length", "Compile", "OutputType", "authorization">>
         IN  IF denied # <<>>
             THEN Outcome(NilResult, UnauthorizedError(denied[1], userRoles), authSteps,
                          IF securityLogger # "nil"
                          THEN <<[event |-> "LogUnauthorizedField", expr |-> celExpr,
                                  field |-> denied[1], userRoles |-> userRoles]>>
                          ELSE <<>>)
             ELSE IF depth > maxExpressionDepth
             THEN Outcome(NilResult, DepthError(depth), Append(authSteps, "depth"), <<>>)
             ELSE ConvertTail(celExpr, Append(authSteps, "depth"), <<>>)

\* referencedFields is the slice extractReferencedFields returned for celExpr
ConvertWithAuth(celExpr, userRoles, referencedFields) ==
    IF Cardinality(publicFields) = 0 /\ Cardinality(DOMAIN fieldACL) = 0
    THEN Convert(celExpr)
    ELSE IF celExpr.len > maxExpressionLength
    THEN Outcome(NilResult, LengthError(celExpr), <<"length">>, <<>>)
    ELSE IF celExpr.compile = "error"
    THEN Outcome(NilResult, SyntaxError, <<"length", "Compile">>, <<>>)
    ELSE IF celExpr.compile = "nonbool"
    THEN Outcome(NilResult, TypeError, <<"length", "Compile", "OutputType">>, <<>>)
    ELSE LET denied == Unauthorized(referencedFields, userRoles)
             depth == calculateExpressionDepth(celExpr.ast)
             authSteps == <<"length", "Compile", "OutputType", "authorization">>
         IN  IF denied # <<>>
             THEN Outcome(NilResult, UnauthorizedError(denied[1], userRoles), authSteps,
                          IF securityLogger # "nil"
                          THEN <<[event |-> "LogUnauthorizedField", expr |-> celExpr,
                                  field |-> denied[1], userRoles |-> userRoles]>>
                          ELSE <<>>)
             ELSE IF depth > maxExpressionDepth
             THEN Outcome(NilResult, DepthError(depth), Append(authSteps, "depth"), <<>>)
             ELSE ConvertTail(celExpr, Append(authSteps, "depth"), <<>>)

(***************************************************************************)
(* The configurations the converter is built from.                         *)
(***************************************************************************)
\* Config.FieldDeclarations: Type is the declared CEL type ("nil" when absent)
Declarations ==
    [status |-> [Type |-> "string", Column |-> "status_col"],
     salary |-> [Type |-> "int", Column |-> ""],
     active |-> [Type |-> "bool", Column |-> "is_active"],
     meta |-> [Type |-> "map", Column |-> ""],
     legacy |-> [Type |-> "nil", Column |-> "legacy_col"]]

\* a Go map with no entries (nil or empty)
EmptyMap == [x \in {} |-> <<>>]

PublicFieldsChoices ==
    {<<>>, <<"status">>, <<"status", "meta", "owner">>}

FieldACLChoices ==
    {EmptyMap,
     [x \in {"salary"} |-> <<"admin", "hr">>],
     [x \in {"salary", "status"} |-> IF x = "salary" THEN <<"admin">> ELSE <<"hr">>],
     [x \in {"status"} |-> <<>>]}

Configs ==
    [FieldDeclarations : {Declarations},
     MaxExpressionLength : {0, LenLimit},
     MaxExpressionDepth : {DepthLimit},
     MaxInClauseSize : {InLimit},
     PublicFields : PublicFieldsChoices,
     FieldACL : FieldACLChoices]

\* the role lists callers present
RoleLists == {<<>>, <<"admin">>, <<"user">>, <<"user", "hr">>}

(***************************************************************************)
(* The expressions callers submit.  The set holds what the compiler yields *)
(* for the restricted grammar and, beyond it, trees with a wrong arity or  *)
(* an ill-typed operand, which the conversion functions guard against.     *)
(***************************************************************************)
StrLits == SeqsUpTo(Alphabet, MaxLitLen) \cup {<<"%", "_", Backslash>>}

StrA == Const("string", <<"a">>)

Int1 == Const("int64", <<"1">>)

Null == Const("null", <<>>)

BoolTrue == Const("bool", <<"true">>)

BoolFalse == Const("bool", <<"false">>)

MetaOwner == Select(Ident("meta"), "owner")

FieldRefs == {Ident("status"), Ident("salary"), MetaOwner}

Comparisons ==
    {Call(fn, Nil, <<l, r>>) :
        fn \in DOMAIN ComparisonFunctions,
        l \in FieldRefs \cup {StrA},
        r \in {StrA, Int1, Null, Ident("salary")}}
    \cup {Call("_==_", Nil, <<MetaOwner, r>>) :
            r \in {List(<<Int1>>), Struct(<<[key |-> StrA, value |-> Ident("salary")]>>)}}
    \cup {Call("_==_", Nil, <<Ident("status")>>)}
    \cup {Call("_==_", Nil, <<Select(Ident("meta"), "legacy"), StrA>>)}
    \cup {Call("_==_", Nil, <<Select(Ident("meta"), "status"), r>>) : r \in {StrA, Int1}}

StringFunctions == {"contains", "startsWith", "endsWith"}

StringOps ==
    {Call(fn, t, <<Const("string", lit)>>) :
        fn \in StringFunctions, t \in {Ident("status"), MetaOwner}, lit \in StrLits}
    \cup {Call(fn, Ident("status"), <<a>>) :
            fn \in StringFunctions, a \in {Int1, Null, Ident("status")}}
    \cup {Call(fn, StrA, <<StrA>>) : fn \in StringFunctions}
    \cup {Call(fn, Ident("status"), args) :
            fn \in StringFunctions, args \in {<<>>, <<StrA, StrA>>}}
    \cup {Call("contains", Ident("salary"), <<StrA>>)}

StrPercent == Const("string", <<"%">>)

Lists ==
    {List([i \in 1..k |-> StrA]) : k \in 0..(InLimit + 1)}
    \cup {List(<<StrA, Ident("salary")>>), List(<<Int1>>), Ident("status")}
    \cup {List(<<StrA, StrPercent>>), List(<<StrPercent, StrA>>)}
    \cup {List([i \in 1..(InLimit + 1) |-> Ident("salary")])}

InOps ==
    {Call("@in", Nil, <<l, lst>>) : l \in {Ident("status"), Ident("salary")}, lst \in Lists}
    \cup {Call("@in", Nil, <<Ident("status")>>)}

CmpStatus == Call("_==_", Nil, <<Ident("status"), StrA>>)

CmpSalary == Call("_>_", Nil, <<Ident("salary"), Int1>>)

CmpMeta == Call("_==_", Nil, <<MetaOwner, StrA>>)

Unsupported == Call("matches", Ident("status"), <<StrA>>)

Core ==
    {CmpStatus, CmpSalary, CmpMeta, Unsupported, BoolTrue, Ident("active"),
     Call("contains", Ident("status"), <<StrA>>)}

RECURSIVE NotChain(_, _)
NotChain(k, x) == IF k = 0 THEN x ELSE Call("!_", Nil, <<NotChain(k - 1, x)>>)

Logicals ==
    {Call(fn, Nil, <<x, y>>) : fn \in {"_&&_", "_||_"}, x \in Core, y \in Core}
    \cup {NotChain(k, x) : k \in 1..DepthLimit, x \in Core}
    \cup {Call(fn, Nil, args) :
            fn \in {"_&&_", "_||_", "!_"},
            args \in {<<>>, <<CmpStatus, CmpStatus, CmpStatus>>}}
    \cup {Call(fn, Nil, <<CmpStatus>>) : fn \in {"_&&_", "_||_"}}
    \cup {Call("!_", Nil, <<CmpStatus, CmpStatus>>)}
    \cup {NotChain(1, Call("_<_", Nil, <<Ident("salary"), Null>>)),
          Call("_&&_", Nil, <<CmpStatus, Call("_<_", Nil, <<Ident("salary"), Null>>)>>)}
    \cup {Call("_&&_", Nil, <<CmpStatus, Call("_==_", Nil, <<Ident("status")>>)>>)}
    \cup {Call("_&&_", Nil, <<CmpStatus, c>>) : c \in {StrA, Int1, Null}}
    \cup {Call("_||_", Nil, <<CmpStatus, x>>) :
            x \in {List(<<BoolTrue>>), Struct(<<[key |-> StrA, value |-> BoolTrue]>>)}}

\* [1].exists(x, salary == 1)
ExistsSalary ==
    Comprehension("x", "__result__", List(<<Int1>>),
                  Call("_||_", Nil, <<Ident("__result__"),
                                      Call("_==_", Nil, <<Ident("salary"), Int1>>)>>))

Others ==
    {Unsupported, BoolTrue, BoolFalse, Ident("active"), Select(Ident("meta"), "flag"),
     ExistsSalary}

ASTs == Comparisons \cup StringOps \cup InOps \cup Logicals \cup Others

\* the raw lengths of the submitted texts: at the configured limit and just above it
Lengths == {LenLimit, LenLimit + 1}

\* the texts: compile is the compiler's verdict ("error": issues, "nonbool":
\* compiled to a non-boolean type, "ok": compiled to the boolean tree ast)
Texts ==
    [len : Lengths, compile : {"error", "nonbool"}, ast : {Nil}]
    \cup [len : Lengths, compile : {"ok"}, ast : ASTs]

(***************************************************************************)
(* The state machine: a converter is built once, then callers convert.     *)
(***************************************************************************)
NoText == [len |-> 0, compile |-> "error", ast |-> Nil]

NoCall == [method |-> "none", celExpr |-> NoText, userRoles |-> <<>>, referencedFields |-> <<>>]

NoRet == [result |-> NilResult, err |-> NoErr]

NotEscaped == <<"?">>

NoSeen == [method |-> "none"]

NotRendered == [sql |-> <<>>, args |-> <<>>, err |-> NoErr, called |-> FALSE]

Init ==
    /\ \E config \in Configs :
           LET c == NewConverter(config)
           IN  /\ columnMappings = c.columnMappings
               /\ fieldDeclarations = c.fieldDeclarations
               /\ maxExpressionLength = c.maxExpressionLength
               /\ maxExpressionDepth = c.maxExpressionDepth
               /\ maxInClauseSize = c.maxInClauseSize
               /\ publicFields = c.publicFields
               /\ fieldACL = c.fieldACL
               /\ securityLogger = c.securityLogger
    /\ pc = "idle"
    /\ call = NoCall
    /\ ret = NoRet
    /\ stages = <<>>
    /\ auditLog = <<>>
    /\ rendered = NotRendered
    /\ seen = NoSeen
    /\ str = <<>>
    /\ escaped = NotEscaped

\* a caller runs c.Convert(celExpr)
CallConvert(celExpr) ==
    /\ pc = "idle"
    /\ LET o == Convert(celExpr)
       IN  /\ ret' = [result |-> o.result, err |-> o.err]
           /\ stages' = o.stages
           /\ auditLog' = o.log
    /\ call' = [method |-> "Convert", celExpr |-> celExpr, userRoles |-> <<>>,
                referencedFields |-> <<>>]
    /\ pc' = "done"
    /\ rendered' = NotRendered
    /\ UNCHANGED <<convVars, escVars, keptVars>>

\* a caller runs c.ConvertWithAuth(celExpr, userRoles); referencedFields is the
\* order in which this run's map iteration lists the referenced fields
CallConvertWithAuth(celExpr, userRoles) ==
    /\ pc = "idle"
    /\ \E referencedFields \in MapOrders(extractReferencedFields(celExpr.ast)) :
           /\ LET o == ConvertWithAuth(celExpr, userRoles, referencedFields)
              IN  /\ ret' = [result |-> o.result, err |-> o.err]
                  /\ stages' = o.stages
                  /\ auditLog' = o.log
           /\ call' = [method |-> "ConvertWithAuth", celExpr |-> celExpr,
                       userRoles |-> userRoles, referencedFields |-> referencedFields]
    /\ pc' = "done"
    /\ rendered' = NotRendered
    /\ UNCHANGED <<convVars, escVars, keptVars>>

\* the caller has consumed the returned values; the converter is ready for the next call
Discard ==
    /\ pc = "done"
    /\ pc' = "idle"
    /\ call' = NoCall
    /\ ret' = NoRet
    /\ stages' = <<>>
    /\ auditLog' = <<>>
    /\ rendered' = NotRendered
    /\ UNCHANGED <<convVars, escVars, keptVars>>

\* the caller renders the returned predicate: result.Where.ToSql()
CallToSql ==
    /\ pc = "done"
    /\ ret.result # NilResult
    /\ rendered = NotRendered
    /\ rendered' = ToSql(ret.result.Where)
    /\ UNCHANGED <<convVars, escVars, keptVars, pc, call, ret, stages, auditLog>>

Next ==
    \/ \E celExpr \in Texts : CallConvert(celExpr)
    \/ \E celExpr \in Texts : \E userRoles \in RoleLists : CallConvertWithAuth(celExpr, userRoles)
    \/ CallToSql
    \/ Discard

Spec == Init /\ [][Next]_vars

(***************************************************************************)
(* Repeated conversions: the caller keeps what one call returned and goes  *)
(* on converting, the same text among others.                              *)
(***************************************************************************)
\* the trees of the repeated conversions: one field, two fields in either
\* order, a field-select, a membership, a negation, an unsupported call
RepeatedASTs ==
    {CmpStatus, CmpMeta, Unsupported,
     Call("_&&_", Nil, <<CmpStatus, CmpSalary>>),
     Call("_||_", Nil, <<CmpSalary, CmpStatus>>),
     Call("@in", Nil, <<Ident("salary"), List(<<Int1>>)>>),
     NotChain(1, CmpSalary)}

RepeatedTexts ==
    [len : {LenLimit}, compile : {"error"}, ast : {Nil}]
    \cup [len : {LenLimit}, compile : {"ok"}, ast : RepeatedASTs]

\* the Converter value as it stands
TheConverter ==
    [columnMappings |-> columnMappings, fieldDeclarations |-> fieldDeclarations,
     maxExpressionLength |-> maxExpressionLength, maxExpressionDepth |-> maxExpressionDepth,
     maxInClauseSize |-> maxInClauseSize, publicFields |-> publicFields,
     fieldACL |-> fieldACL, securityLogger |-> securityLogger]

\* the caller keeps the arguments and the returned values of the call just made,
\* and a copy of what the converter held at that time
Keep ==
    /\ pc = "done"
    /\ seen = NoSeen
    /\ seen' = [method |-> call.method, celExpr |-> call.celExpr,
                userRoles |-> call.userRoles, result |-> ret.result, err |-> ret.err,
                converter |-> TheConverter]
    /\ pc' = "idle"
    /\ call' = NoCall
    /\ ret' = NoRet
    /\ stages' = <<>>
    /\ auditLog' = <<>>
    /\ rendered' = NotRendered
    /\ UNCHANGED <<convVars, escVars>>

NextRepeated ==
    \/ \E celExpr \in RepeatedTexts : CallConvert(celExpr)
    \/ \E celExpr \in RepeatedTexts : \E userRoles \in RoleLists :
           CallConvertWithAuth(celExpr, userRoles)
    \/ Keep
    \/ Discard

SpecRepeated == Init /\ [][NextRepeated]_vars

(***************************************************************************)
(* The caller's Config after construction.  NewConverter stores            *)
(* config.FieldDeclarations and config.FieldACL as they are: the converter *)
(* and the caller hold the same two maps, so an entry the caller sets in   *)
(* its Config is set in the converter's field.  columnMappings and         *)
(* publicFields are maps NewConverter made itself.                         *)
(***************************************************************************)
\* m[k] = v on a Go map
MapSet(m, k, v) == [x \in DOMAIN m \cup {k} |-> IF x = k THEN v ELSE m[x]]

\* the caller runs config.FieldACL[field] = roles
CallerSetsFieldACL(field, roles) ==
    /\ pc = "idle"
    /\ DOMAIN fieldACL # {}
    /\ MapSet(fieldACL, field, roles) # fieldACL
    /\ fieldACL' = MapSet(fieldACL, field, roles)
    /\ UNCHANGED <<columnMappings, fieldDeclarations, maxExpressionLength,
                   maxExpressionDepth, maxInClauseSize, publicFields, securityLogger,
                   callVars, keptVars, escVars>>

\* the caller runs config.FieldDeclarations[field] = mapping
CallerSetsFieldDeclaration(field, mapping) ==
    /\ pc = "idle"
    /\ MapSet(fieldDeclarations, field, mapping) # fieldDeclarations
    /\ fieldDeclarations' = MapSet(fieldDeclarations, field, mapping)
    /\ UNCHANGED <<columnMappings, fieldACL, maxExpressionLength,
                   maxExpressionDepth, maxInClauseSize, publicFields, securityLogger,
                   callVars, keptVars, escVars>>

NextShared ==
    \/ \E celExpr \in RepeatedTexts : CallConvert(celExpr)
    \/ \E celExpr \in RepeatedTexts : \E userRoles \in RoleLists :
           CallConvertWithAuth(celExpr, userRoles)
    \/ Keep
    \/ Discard
    \/ CallerSetsFieldACL("salary", <<"user">>)
    \/ CallerSetsFieldDeclaration("status", [Type |-> "int", Column |-> "status_col"])

SpecShared == Init /\ [][NextShared]_vars

(***************************************************************************)
(* The escaper harness: escapeLikePattern applied to every short string.   *)
(***************************************************************************)
Strings == SeqsUpTo(Alphabet, MaxStrLen)

InitEscape ==
    /\ \E config \in Configs :
           LET c == NewConverter(config)
           IN  /\ columnMappings = c.columnMappings
               /\ fieldDeclarations = c.fieldDeclarations
               /\ maxExpressionLength = c.maxExpressionLength
               /\ maxExpressionDepth = c.maxExpressionDepth
               /\ maxInClauseSize = c.maxInClauseSize
               /\ publicFields = c.publicFields
               /\ fieldACL = c.fieldACL
               /\ securityLogger = c.securityLogger
               /\ config.PublicFields = <<>>
               /\ config.FieldACL = EmptyMap
               /\ config.MaxExpressionLength = 0
    /\ pc = "idle"
    /\ call = NoCall
    /\ ret = NoRet
    /\ stages = <<>>
    /\ auditLog = <<>>
    /\ rendered = NotRendered
    /\ seen = NoSeen
    /\ str \in Strings
    /\ escaped = NotEscaped

CallEscapeLikePattern ==
    /\ escaped = NotEscaped
    /\ escaped' = escapeLikePattern(str)
    /\ UNCHANGED <<convVars, callVars, keptVars, str>>

NextEscape == CallEscapeLikePattern

SpecEscape == InitEscape /\ [][NextEscape]_vars

(***************************************************************************)
(* Vocabulary of the properties.                                           *)
(***************************************************************************)
Done == pc = "done"

Compiled == call.celExpr.compile = "ok"

WithinLength == call.celExpr.len <= maxExpressionLength

AuthConfigured == publicFields # {} \/ DOMAIN fieldACL # {}

Failed == ret.err.type # "nil"

\* the code a caller reads with err.(*ConversionError).ErrorCode
ErrorCodeOf(err) == IF err.type = "ConversionError" THEN err.ErrorCode ELSE "none"

Ran(step) == step \in Range(stages)

\* the returned predicate has been rendered
WasRendered == rendered # NotRendered

\* every field a tree refers to, wherever it stands: identifiers and field-select
\* targets, the variables a comprehension binds excepted
RECURSIVE ReferencedAnywhere(_)
ReferencedAnywhere(expr) ==
    CASE expr.kind = "ident" -> {expr.name}
      [] expr.kind = "select" -> {expr.field} \cup ReferencedAnywhere(expr.operand)
      [] expr.kind = "call" ->
             ReferencedAnywhere(expr.target)
                 \cup UNION {ReferencedAnywhere(expr.args[i]) : i \in 1..Len(expr.args)}
      [] expr.kind = "list" ->
             UNION {ReferencedAnywhere(expr.elements[i]) : i \in 1..Len(expr.elements)}
      [] expr.kind = "struct" ->
             UNION {ReferencedAnywhere(expr.entries[i].key)
                        \cup ReferencedAnywhere(expr.entries[i].value)
                            : i \in 1..Len(expr.entries)}
      [] expr.kind = "comprehension" ->
             (ReferencedAnywhere(expr.iterRange) \cup ReferencedAnywhere(expr.loopStep))
                 \ {expr.iterVar, expr.accuVar}
      [] OTHER -> {}

\* the policy rule: public, or one of the caller's roles is granted the field
Permitted(field, userRoles) ==
    \/ field \in publicFields
    \/ /\ field \in DOMAIN fieldACL
       /\ Range(userRoles) \cap Range(fieldACL[field]) # {}

(***************************************************************************)
(* C1.  With a policy configured, ConvertWithAuth returns a predicate only *)
(* if every field referenced anywhere in the expression is public or       *)
(* granted to one of the caller's roles; if some referenced field is       *)
(* neither, the call (of a text that is within the length limit and        *)
(* compiles to a boolean tree) fails with code UNAUTHORIZED_FIELD and      *)
(* returns no predicate.                                                   *)
(***************************************************************************)
C1_AuthorizationRule ==
    (Done /\ call.method = "ConvertWithAuth" /\ AuthConfigured /\ Compiled) =>
        LET referenced == ReferencedAnywhere(call.celExpr.ast)
        IN  /\ ret.result # NilResult =>
                   \A f \in referenced : Permitted(f, call.userRoles)
            /\ (WithinLength /\ \E f \in referenced : ~Permitted(f, call.userRoles)) =>
                   /\ ErrorCodeOf(ret.err) = "UNAUTHORIZED_FIELD"
                   /\ ret.result = NilResult

(***************************************************************************)
(* C2.  Every UNAUTHORIZED_FIELD failure carries the same code and the     *)
(* same public message, whatever the expression, field and roles, and the  *)
(* message names no field.                                                 *)
(***************************************************************************)
UnauthorizedPublicMessage ==
    <<W("access denied: insufficient permissions for requested filter")>>

FieldNames ==
    DOMAIN Declarations \cup UNION {ReferencedAnywhere(a) : a \in ASTs}

NamesNoField(text) ==
    \A i \in 1..Len(text) : \A f \in FieldNames : text[i] # F(f) /\ text[i] # W(f)

C2_UniformDenial ==
    (Done /\ ErrorCodeOf(ret.err) = "UNAUTHORIZED_FIELD") =>
        /\ ret.err.PublicMessage = UnauthorizedPublicMessage
        /\ ErrorText(ret.err) = UnauthorizedPublicMessage
        /\ NamesNoField(ErrorText(ret.err))

C2_Witness ==
    /\ Done
    /\ ErrorCodeOf(ret.err) = "UNAUTHORIZED_FIELD"
    /\ F("salary") \in Range(ret.err.InternalError.text)
    /\ call.userRoles = <<"user">>

C4_DisabledWhenNoPublicFields ==
    (Done /\ call.method = "ConvertWithAuth" /\ publicFields = {}) =>
        LET o == Convert(call.celExpr)
        IN  ret = [result |-> o.result, err |-> o.err]

(***************************************************************************)
(* C5.  A text longer than maxExpressionLength is rejected by Convert and  *)
(* ConvertWithAuth with an error and no predicate before the compiler is   *)
(* invoked, whatever the compiler would say of it and whatever the policy; *)
(* a text whose length equals the limit passes the length check and        *)
(* reaches the compiler.                                                   *)
(***************************************************************************)
C5_LengthBeforeCompile ==
    Done =>
        /\ call.celExpr.len > maxExpressionLength =>
               /\ Failed
               /\ ret.result = NilResult
               /\ ~Ran("Compile")
               /\ stages = <<"length">>
        /\ call.celExpr.len = maxExpressionLength => Ran("Compile")

C5_Witness ==
    /\ Done
    /\ call.method = "ConvertWithAuth"
    /\ call.celExpr.len > maxExpressionLength
    /\ call.celExpr.ast = CmpStatus
    /\ "status" \in publicFields
    /\ Failed

C5_WitnessAtLimit ==
    /\ Done
    /\ call.celExpr.len = maxExpressionLength
    /\ ret.result # NilResult

(***************************************************************************)
(* C6.  An expression whose tree is deeper than maxExpressionDepth is      *)
(* rejected by Convert and ConvertWithAuth with an error and no predicate, *)
(* and convertExpr is not entered for it; an expression whose depth equals *)
(* the limit passes the depth check and reaches convertExpr.               *)
(***************************************************************************)
\* the depth of a tree: a node counts one level above its deepest operand
RECURSIVE TreeDepth(_)
TreeDepth(expr) ==
    LET operands ==
            CASE expr.kind = "call" -> <<expr.target>> \o expr.args
              [] expr.kind = "select" -> <<expr.operand>>
              [] expr.kind = "list" -> expr.elements
              [] expr.kind = "struct" ->
                     [i \in 1..Len(expr.entries) |-> expr.entries[i].key]
                         \o [i \in 1..Len(expr.entries) |-> expr.entries[i].value]
              [] expr.kind = "comprehension" -> <<expr.iterRange, expr.loopStep>>
              [] OTHER -> <<>>
    IN  IF expr.kind = "nil" THEN 0
        ELSE 1 + SeqMax([i \in 1..Len(operands) |-> TreeDepth(operands[i])], 0)

\* position of a step among the executed steps (0 when it did not run)
StepIndex(step) ==
    IF Ran(step) THEN CHOOSE i \in 1..Len(stages) : stages[i] = step ELSE 0

C6_DepthBeforeConversion ==
    (Done /\ Compiled) =>
        LET depth == calculateExpressionDepth(call.celExpr.ast)
        IN  /\ TreeDepth(call.celExpr.ast) > maxExpressionDepth =>
                   Failed /\ ret.result = NilResult
            /\ depth > maxExpressionDepth => ~Ran("convertExpr")
            /\ Ran("convertExpr") =>
                   Ran("depth") /\ StepIndex("depth") < StepIndex("convertExpr")
            /\ (depth = maxExpressionDepth /\ Ran("depth")) => Ran("convertExpr")

C6_Witness ==
    /\ Done
    /\ Compiled
    /\ calculateExpressionDepth(call.celExpr.ast) = maxExpressionDepth + 1
    /\ Ran("depth")
    /\ Failed

C6_WitnessAtLimit ==
    /\ Done
    /\ Compiled
    /\ calculateExpressionDepth(call.celExpr.ast) = maxExpressionDepth
    /\ ret.result # NilResult

(***************************************************************************)
(* C7.  Every failure of Convert or ConvertWithAuth is a ConversionError   *)
(* with one of the eight codes and that code's fixed public message:       *)
(* over-length input fails with TOO_LONG, over-deep input with             *)
(* TOO_COMPLEX, an oversized list with LIST_TOO_LARGE, and the text handed *)
(* to the caller carries no field name, limit value or internal type name. *)
(***************************************************************************)
ErrorCodes ==
    {"INVALID_SYNTAX", "INVALID_TYPE", "TOO_LONG", "TOO_COMPLEX", "UNSUPPORTED_OPERATION",
     "TYPE_MISMATCH", "UNAUTHORIZED_FIELD", "LIST_TOO_LARGE"}

\* no formatted number, field name or Go type name among the tokens
Sanitized(text) ==
    \A i \in 1..Len(text) : DOMAIN text[i] = {"w"}

\* a membership test of a field against a list longer than maxInClauseSize
IsOversizedMembership(expr) ==
    /\ expr.kind = "call"
    /\ expr.function = "@in"
    /\ Len(expr.args) = 2
    /\ expr.args[1].kind = "ident"
    /\ expr.args[2].kind = "list"
    /\ Len(expr.args[2].elements) > maxInClauseSize

C7_SanitizedTaxonomy ==
    (Done /\ Failed) =>
        /\ ret.err.type = "ConversionError"
        /\ ErrorCodeOf(ret.err) \in ErrorCodes
        /\ Sanitized(ErrorText(ret.err))
        /\ call.celExpr.len > maxExpressionLength => ErrorCodeOf(ret.err) = "TOO_LONG"
        /\ (Ran("depth") /\ ~Ran("convertExpr")) => ErrorCodeOf(ret.err) = "TOO_COMPLEX"
        /\ (Ran("convertExpr") /\ IsOversizedMembership(call.celExpr.ast)) =>
               ErrorCodeOf(ret.err) = "LIST_TOO_LARGE"

(***************************************************************************)
(* C8.  A call returns either a predicate or an error, never both and      *)
(* never neither; when any node handed to convertExpr is rejected (a child *)
(* of AND/OR/NOT at any depth, or an element of a membership list), the    *)
(* call returns an error and a nil result.                                 *)
(***************************************************************************)
\* the nodes convertExpr is applied to when every operand were converted
RECURSIVE ConvertedNodes(_)
ConvertedNodes(expr) ==
    {expr} \cup
        IF expr.kind = "call" /\ expr.function \in {"_&&_", "_||_", "!_"}
        THEN UNION {ConvertedNodes(expr.args[i]) : i \in 1..Len(expr.args)}
        ELSE {}

\* a membership node one of whose list elements is not a supported constant
HasRejectedElement(expr) ==
    /\ expr.kind = "call"
    /\ expr.function = "@in"
    /\ Len(expr.args) = 2
    /\ expr.args[2].kind = "list"
    /\ \E i \in 1..Len(expr.args[2].elements) :
           getConstantValue(expr.args[2].elements[i]).err.type # "nil"

\* a node that is rejected although none of its operands is
RejectedItself(expr) ==
    /\ convertExpr(expr).err.type # "nil"
    /\ \A n \in ConvertedNodes(expr) \ {expr} : convertExpr(n).err.type = "nil"

SomeNodeRejected(expr) ==
    \E n \in ConvertedNodes(expr) : RejectedItself(n) \/ HasRejectedElement(n)

C8_AllOrNothing ==
    Done =>
        /\ Failed <=> ret.result = NilResult
        /\ ret.result # NilResult => ret.result.Where # NilSqlizer
        /\ (Compiled /\ SomeNodeRejected(call.celExpr.ast)) =>
               Failed /\ ret.result = NilResult

C8_Witness ==
    /\ Done
    /\ call.celExpr.ast = Call("_&&_", Nil, <<CmpStatus, Unsupported>>)
    /\ Ran("convertExpr")
    /\ convertExpr(CmpStatus).err.type = "nil"
    /\ Failed
    /\ ret.result = NilResult

C8_WitnessListElement ==
    /\ Done
    /\ Ran("convertExpr")
    /\ HasRejectedElement(call.celExpr.ast)
    /\ Failed

(***************************************************************************)
(* C9.  escapeLikePattern equals the single-pass map that puts a backslash *)
(* in front of each backslash, percent, underscore, '[' and ']' and keeps  *)
(* every other character: percent, underscore, backslash becomes           *)
(* backslash-percent, backslash-underscore, backslash-backslash.           *)
(***************************************************************************)
RECURSIVE SinglePassEscape(_)
SinglePassEscape(s) ==
    IF s = <<>> THEN <<>>
    ELSE (IF Head(s) \in LikeSpecials THEN <<Backslash, Head(s)>> ELSE <<Head(s)>>)
             \o SinglePassEscape(Tail(s))

C9_EscapeIsSinglePass ==
    escaped # NotEscaped =>
        /\ escaped = SinglePassEscape(str)
        /\ str = <<"%", "_", Backslash>> =>
               escaped = <<Backslash, "%", Backslash, "_", Backslash, Backslash>>

C9_Witness ==
    /\ str = <<"%", "_", Backslash>>
    /\ escaped = <<Backslash, "%", Backslash, "_", Backslash, Backslash>>

(***************************************************************************)
(* C10.  contains / startsWith / endsWith on field f with string literal s *)
(* yield one Like predicate on f's column whose single bound value is      *)
(* '%' escape(s) '%', escape(s) '%' and '%' escape(s): read as a LIKE      *)
(* pattern it is the literal text s between the structural wildcards, with *)
(* no other wildcard.                                                      *)
(***************************************************************************)
\* how a LIKE pattern with escape character backslash reads: "ANY" for a bare
\* percent, "ONE" for a bare underscore, [lit |-> c] for an escaped or ordinary c
RECURSIVE LikeReading(_)
LikeReading(p) ==
    IF p = <<>> THEN <<>>
    ELSE IF Head(p) = Backslash /\ Len(p) >= 2
    THEN <<[lit |-> p[2]]>> \o LikeReading(Tail(Tail(p)))
    ELSE IF Head(p) = "%" THEN <<[any |-> TRUE]>> \o LikeReading(Tail(p))
    ELSE IF Head(p) = "_" THEN <<[one |-> TRUE]>> \o LikeReading(Tail(p))
    ELSE <<[lit |-> Head(p)]>> \o LikeReading(Tail(p))

Literally(s) == [i \in 1..Len(s) |-> [lit |-> s[i]]]

LeadingWildcard == [contains |-> <<"%">>, startsWith |-> <<>>, endsWith |-> <<"%">>]

TrailingWildcard == [contains |-> <<"%">>, startsWith |-> <<"%">>, endsWith |-> <<>>]

\* a string operator applied to a field (identifier or field-select) and a string literal
IsStringOpOnField(expr) ==
    /\ expr.kind = "call"
    /\ expr.function \in StringFunctions
    /\ expr.target.kind \in {"ident", "select"}
    /\ Len(expr.args) = 1
    /\ expr.args[1].kind = "const"
    /\ expr.args[1].ckind = "string"

FieldOf(expr) == IF expr.kind = "ident" THEN expr.name ELSE expr.field

\* the values a predicate binds, in order (Like binds its one pattern)
LikeBoundValues(sqlizer) == <<sqlizer.value>>

C10_LikePattern ==
    (Done /\ Compiled /\ IsStringOpOnField(call.celExpr.ast) /\ Ran("convertExpr")) =>
        LET e == call.celExpr.ast
            s == e.args[1].val
            lead == LeadingWildcard[e.function]
            trail == TrailingWildcard[e.function]
            where == ret.result.Where
        IN  /\ ~Failed
            /\ ret.result # NilResult
            /\ where.kind = "Like"
            /\ where.column = mapFieldName(FieldOf(e.target))
            /\ Len(LikeBoundValues(where)) = 1
            /\ where.value.t = "string"
            /\ where.value.v = lead \o SinglePassEscape(s) \o trail
            /\ LikeReading(where.value.v) =
                   [i \in 1..Len(lead) |-> [any |-> TRUE]] \o Literally(s)
                       \o [i \in 1..Len(trail) |-> [any |-> TRUE]]
            /\ s = <<>> => where.value.v = lead \o trail

C10_Witness ==
    /\ Done
    /\ call.celExpr.ast = Call("startsWith", Ident("status"), <<Const("string", <<"%", "_", Backslash>>)>>)
    /\ ret.result # NilResult
    /\ ret.result.Where.value.v = <<Backslash, "%", Backslash, "_", Backslash, Backslash, "%">>

C10_WitnessEmpty ==
    /\ Done
    /\ call.celExpr.ast = Call("contains", MetaOwner, <<Const("string", <<>>)>>)
    /\ ret.result # NilResult
    /\ ret.result.Where = Cmp("Like", "owner", Value("string", <<"%", "%">>))

(***************************************************************************)
(* C11.  A comparison of a field with the null literal using == yields the *)
(* null check on the field's mapped column, rendered 'column IS NULL', and *)
(* using != the negated null check, rendered 'column IS NOT NULL', both    *)
(* with zero bound values and no placeholder: never a comparison against a *)
(* bound null parameter.                                                   *)
(***************************************************************************)
\* f == null or f != null, f an identifier or a field-select
IsNullEquality(expr) ==
    /\ expr.kind = "call"
    /\ expr.function \in {"_==_", "_!=_"}
    /\ Len(expr.args) = 2
    /\ expr.args[1].kind \in {"ident", "select"}
    /\ expr.args[2] = Null

\* the predicate the code uses as NullCheck{column, isNull}
NullCheck(column, isNull) == Cmp(IF isNull THEN "Eq" ELSE "NotEq", column, NilValue)

C11_NullCheck ==
    (Done /\ Compiled /\ Ran("convertExpr") /\ IsNullEquality(call.celExpr.ast)) =>
        LET e == call.celExpr.ast
            column == mapFieldName(FieldOf(e.args[1]))
            isNull == e.function = "_==_"
        IN  /\ ~Failed
            /\ ret.result # NilResult
            /\ ret.result.Where = NullCheck(column, isNull)
            /\ WasRendered =>
                   /\ rendered.err = NoErr
                   /\ rendered.sql =
                          <<Col(column), Op(IF isNull THEN "IS" ELSE "IS NOT"), Op("NULL")>>
                   /\ rendered.args = <<>>
                   /\ Placeholder \notin Range(rendered.sql)

C11_Witness ==
    /\ Done
    /\ call.celExpr.ast = Call("_!=_", Nil, <<Ident("status"), Null>>)
    /\ WasRendered
    /\ rendered.sql = <<Col("status_col"), Op("IS NOT"), Op("NULL")>>
    /\ rendered.args = <<>>

C11_WitnessIsNull ==
    /\ Done
    /\ call.celExpr.ast = Call("_==_", Nil, <<MetaOwner, Null>>)
    /\ WasRendered
    /\ rendered.sql = <<Col("owner"), Op("IS"), Op("NULL")>>

(***************************************************************************)
(* C12.  A membership test of a field against an empty literal list yields *)
(* the always-false predicate, rendered '(1=0)' with zero bound values and *)
(* no membership clause; against a list of n >= 1 literals (n within the   *)
(* size limit) it yields one IN predicate on the field's column, rendered  *)
(* 'column IN (?,...,?)' with the n values bound in list order.            *)
(***************************************************************************)
\* the Go value a literal stands for
LiteralValue(constExpr) ==
    CASE constExpr.ckind = "null" -> NilValue
      [] constExpr.ckind = "int64" -> Value("int64", constExpr.val)
      [] constExpr.ckind = "uint64" -> Value("uint64", constExpr.val)
      [] constExpr.ckind = "double" -> Value("float64", constExpr.val)
      [] constExpr.ckind = "bool" -> Value("bool", constExpr.val)
      [] OTHER -> Value("string", constExpr.val)

IsLiteral(expr) ==
    expr.kind = "const" /\ expr.ckind \in {"null", "int64", "uint64", "double", "bool", "string"}

\* f in [l1, ..., ln], f an identifier, every li a literal, n within the limit
IsLiteralMembership(expr) ==
    /\ expr.kind = "call"
    /\ expr.function = "@in"
    /\ Len(expr.args) = 2
    /\ expr.args[1].kind = "ident"
    /\ expr.args[2].kind = "list"
    /\ \A i \in 1..Len(expr.args[2].elements) : IsLiteral(expr.args[2].elements[i])
    /\ Len(expr.args[2].elements) <= maxInClauseSize

C12_Membership ==
    (Done /\ Compiled /\ Ran("convertExpr") /\ IsLiteralMembership(call.celExpr.ast)) =>
        LET e == call.celExpr.ast
            column == mapFieldName(e.args[1].name)
            elements == e.args[2].elements
            n == Len(elements)
            values == [i \in 1..n |-> LiteralValue(elements[i])]
        IN  /\ ~Failed
            /\ ret.result # NilResult
            /\ ret.result.Where = Cmp("Eq", column, ListValue(values))
            /\ WasRendered =>
                   /\ rendered.err = NoErr
                   /\ rendered.args = values
                   /\ n = 0 => rendered.sql = <<Op("(1=0)")>>
                   /\ n > 0 =>
                          /\ rendered.sql =
                                 <<Col(column), Op("IN"), Op("(")>> \o Placeholders(n)
                                     \o <<Op(")")>>
                          /\ Cardinality({i \in 1..Len(rendered.sql) :
                                             rendered.sql[i] = Placeholder}) = n

C12_Witness ==
    /\ Done
    /\ call.celExpr.ast = Call("@in", Nil, <<Ident("status"), List(<<>>)>>)
    /\ WasRendered
    /\ rendered.sql = <<Op("(1=0)")>>
    /\ rendered.args = <<>>

C12_WitnessOrder ==
    /\ Done
    /\ call.celExpr.ast = Call("@in", Nil, <<Ident("status"), List(<<StrPercent, StrA>>)>>)
    /\ WasRendered
    /\ rendered.sql = <<Col("status_col"), Op("IN"), Op("("), Placeholder, Op(","),
                        Placeholder, Op(")")>>
    /\ rendered.args = <<Value("string", <<"%">>), Value("string", <<"a">>)>>

(***************************************************************************)
(* C13.  A membership list with more than maxInClauseSize elements is      *)
(* rejected with the list-size failure and no predicate, and the size is   *)
(* tested before any element is read into a value (an oversized list with  *)
(* an unreadable element fails on its size, not on the element); a list of *)
(* exactly maxInClauseSize literals is accepted.                           *)
(***************************************************************************)
\* f in <list>, f an identifier
IsMembership(expr) ==
    /\ expr.kind = "call"
    /\ expr.function = "@in"
    /\ Len(expr.args) = 2
    /\ expr.args[1].kind = "ident"
    /\ expr.args[2].kind = "list"

\* the failure that reports a list of n elements against the limit
ListTooLarge(n) ==
    Errorf(<<W("IN clause size"), N(n), W("exceeds maximum of"), N(maxInClauseSize)>>)

\* the chain of errors err wraps, outermost first
RECURSIVE ErrorChain(_)
ErrorChain(err) ==
    IF err.type = "nil" THEN <<>>
    ELSE <<err>> \o ErrorChain(IF err.type = "ConversionError" THEN err.InternalError
                               ELSE err.unwrap)

C13_ListSizeLimit ==
    (Done /\ Compiled /\ Ran("convertExpr") /\ IsMembership(call.celExpr.ast)) =>
        LET elements == call.celExpr.ast.args[2].elements
            n == Len(elements)
        IN  /\ n > maxInClauseSize =>
                   /\ Failed
                   /\ ret.result = NilResult
                   /\ ErrorChain(ret.err)[Len(ErrorChain(ret.err))] = ListTooLarge(n)
                   /\ W("failed to get list element") \notin Range(ErrorText(ret.err))
            /\ (n = maxInClauseSize /\ \A i \in 1..n : IsLiteral(elements[i])) =>
                   /\ ~Failed
                   /\ ret.result # NilResult
                   /\ Len(ret.result.Where.value.elems) = n

C13_Witness ==
    /\ Done
    /\ Ran("convertExpr")
    /\ IsMembership(call.celExpr.ast)
    /\ Len(call.celExpr.ast.args[2].elements) = maxInClauseSize + 1
    /\ \E i \in 1..Len(call.celExpr.ast.args[2].elements) :
           ~IsLiteral(call.celExpr.ast.args[2].elements[i])
    /\ Failed

C13_WitnessAtLimit ==
    /\ Done
    /\ Ran("convertExpr")
    /\ IsMembership(call.celExpr.ast)
    /\ Len(call.celExpr.ast.args[2].elements) = maxInClauseSize
    /\ ret.result # NilResult

(***************************************************************************)
(* C14.  Column resolution.  NewConverter maps every declared field to its *)
(* configured Column, or to the field's own name when Column is empty,     *)
(* also for a field declared without a Type; every predicate built for a   *)
(* field f (comparison, null check, membership, string operator, bare      *)
(* identifier) carries the mapped column of f, which is f itself when f is *)
(* not mapped.                                                             *)
(***************************************************************************)
\* the column the configuration gives a field
ResolveColumn(field) ==
    IF field \in DOMAIN Declarations /\ Declarations[field].Column # ""
    THEN Declarations[field].Column
    ELSE field

\* the fields of the leaves of a converted tree, left to right
RECURSIVE LeafFields(_)
LeafFields(expr) ==
    CASE expr.kind = "ident" -> <<expr.name>>
      [] expr.kind = "call" /\ expr.function \in {"_&&_", "_||_"} ->
             LeafFields(expr.args[1]) \o LeafFields(expr.args[2])
      [] expr.kind = "call" /\ expr.function = "!_" -> LeafFields(expr.args[1])
      [] expr.kind = "call" /\ expr.function \in StringFunctions -> <<FieldOf(expr.target)>>
      [] expr.kind = "call" -> <<FieldOf(expr.args[1])>>
      [] OTHER -> <<>>

\* the columns of the leaves of a predicate, left to right
RECURSIVE PredicateColumns(_)
PredicateColumns(sqlizer) ==
    CASE sqlizer.kind \in {"And", "Or"} ->
             PredicateColumns(sqlizer.parts[1]) \o PredicateColumns(sqlizer.parts[2])
      [] sqlizer.kind = "notSqlizer" -> PredicateColumns(sqlizer.inner)
      [] sqlizer.kind = "Expr" -> <<>>
      [] OTHER -> <<sqlizer.column>>

C14_ColumnResolution ==
    /\ DOMAIN columnMappings = DOMAIN Declarations
    /\ \A f \in DOMAIN Declarations : columnMappings[f] = ResolveColumn(f)
    /\ (Done /\ ~Failed) =>
           LET fields == LeafFields(call.celExpr.ast)
           IN  /\ PredicateColumns(ret.result.Where) =
                      [i \in 1..Len(fields) |-> ResolveColumn(fields[i])]
               /\ \A i \in 1..Len(fields) :
                      mapFieldName(fields[i]) = ResolveColumn(fields[i])

C14_Witness ==
    /\ Done
    /\ call.celExpr.ast = Call("_&&_", Nil, <<CmpStatus, CmpSalary>>)
    /\ ~Failed
    /\ PredicateColumns(ret.result.Where) = <<"status_col", "salary">>

C14_WitnessUntyped ==
    /\ Done
    /\ call.celExpr.ast = Call("_==_", Nil, <<Select(Ident("meta"), "legacy"), StrA>>)
    /\ ~Failed
    /\ Declarations["legacy"].Type = "nil"
    /\ ret.result.Where.column = "legacy_col"

C14_WitnessUnmapped ==
    /\ Done
    /\ call.celExpr.ast = CmpMeta
    /\ ~Failed
    /\ "owner" \notin DOMAIN columnMappings
    /\ ret.result.Where.column = "owner"

(***************************************************************************)
(* C15.  Determinism: a conversion of the same text by the same method     *)
(* with the same roles against the same converter returns the same         *)
(* predicate tree as an earlier one, or fails as the earlier one failed,   *)
(* whatever conversions were made in between and before.                   *)
(***************************************************************************)
\* the call just made repeats the call the caller kept
RepeatsSeen ==
    /\ Done
    /\ seen # NoSeen
    /\ seen.method = call.method
    /\ seen.celExpr = call.celExpr
    /\ seen.userRoles = call.userRoles

C15_Determinism ==
    RepeatsSeen =>
        /\ ret.result = seen.result
        /\ Failed <=> seen.err.type # "nil"

\* two runs over the same two restricted fields whose map iterations differed
C15_Witness ==
    /\ RepeatsSeen
    /\ call.method = "ConvertWithAuth"
    /\ Cardinality(Range(call.referencedFields)) = 2
    /\ \A f \in Range(call.referencedFields) : ~Permitted(f, call.userRoles)
    /\ Failed
    /\ seen.err # ret.err

C15_WitnessSuccess ==
    /\ RepeatsSeen
    /\ call.method = "ConvertWithAuth"
    /\ AuthConfigured
    /\ Cardinality(Range(call.referencedFields)) = 2
    /\ ret.result # NilResult
    /\ ret.result = seen.result

(***************************************************************************)
(* C16.  For every successful conversion the rendered text consists only   *)
(* of column names of the referenced fields, operators, placeholders and   *)
(* the constant tokens of a bare boolean literal or an always-false        *)
(* membership; the literal values of the expression are carried as bound   *)
(* values only, and there are as many placeholders as bound values.        *)
(***************************************************************************)
\* the fixed pieces of SQL text a rendering may hold
SqlOperators ==
    {"=", "<>", "<", "<=", ">", ">=", "LIKE", "IN", "IS", "IS NOT", "NULL",
     "AND", "OR", "NOT", "(", ")", ","}

SqlConstants == {"TRUE", "FALSE", "(1=0)"}

\* the values the leaves of a converted tree bind, left to right
RECURSIVE ExpectedArgs(_)
ExpectedArgs(expr) ==
    CASE expr.kind = "ident" -> <<Value("bool", <<"true">>)>>
      [] expr.kind = "call" /\ expr.function \in {"_&&_", "_||_"} ->
             ExpectedArgs(expr.args[1]) \o ExpectedArgs(expr.args[2])
      [] expr.kind = "call" /\ expr.function = "!_" -> ExpectedArgs(expr.args[1])
      [] expr.kind = "call" /\ expr.function \in StringFunctions ->
             <<Value("string", LeadingWildcard[expr.function]
                                   \o SinglePassEscape(expr.args[1].val)
                                   \o TrailingWildcard[expr.function])>>
      [] expr.kind = "call" /\ expr.function = "@in" ->
             [i \in 1..Len(expr.args[2].elements) |->
                 LiteralValue(expr.args[2].elements[i])]
      [] expr.kind = "call" ->
             IF expr.args[2] = Null THEN <<>> ELSE <<LiteralValue(expr.args[2])>>
      [] OTHER -> <<>>

CountOf(token, text) == Cardinality({i \in 1..Len(text) : text[i] = token})

C16_ValuesAreBound ==
    (Done /\ WasRendered) =>
        LET fields == LeafFields(call.celExpr.ast)
            columns == {ResolveColumn(fields[i]) : i \in 1..Len(fields)}
        IN  /\ \A i \in 1..Len(rendered.sql) :
                   \/ rendered.sql[i] = Placeholder
                   \/ \E c \in columns : rendered.sql[i] = Col(c)
                   \/ \E o \in SqlOperators \cup SqlConstants : rendered.sql[i] = Op(o)
            /\ CountOf(Placeholder, rendered.sql) = Len(rendered.args)
            /\ rendered.err = NoErr =>
                   /\ Len(rendered.args) = Len(ExpectedArgs(call.celExpr.ast))
                   /\ Range(rendered.args) = Range(ExpectedArgs(call.celExpr.ast))

C16_Witness ==
    /\ Done
    /\ WasRendered
    /\ call.celExpr.ast = Call("_&&_", Nil, <<CmpStatus, CmpSalary>>)
    /\ rendered.args = <<Value("string", <<"a">>), Value("int64", <<"1">>)>>
    /\ CountOf(Placeholder, rendered.sql) = 2

C16_WitnessBoolLiteral ==
    /\ Done
    /\ WasRendered
    /\ call.celExpr.ast = BoolTrue
    /\ rendered.sql = <<Op("TRUE")>>
    /\ rendered.args = <<>>

(***************************************************************************)
(* C17.  A call node whose function is outside the supported set (AND, OR, *)
(* NOT, the six comparisons, in, contains, startsWith, endsWith), at any   *)
(* depth of the tree, makes the conversion fail with code                  *)
(* UNSUPPORTED_OPERATION and the fixed public message 'unsupported filter  *)
(* operation'; the function's name is not in what the caller is handed.    *)
(***************************************************************************)
SupportedFunctions ==
    {"_&&_", "_||_", "!_", "@in"} \cup DOMAIN ComparisonFunctions \cup StringFunctions

\* the node whose rejection ends the conversion of a tree that fails: the
\* operands of AND / OR / NOT are converted left to right
RECURSIVE FirstRejected(_)
FirstRejected(expr) ==
    IF expr.kind = "call" /\ expr.function \in {"_&&_", "_||_"} /\ Len(expr.args) = 2
    THEN IF convertExpr(expr.args[1]).err.type # "nil" THEN FirstRejected(expr.args[1])
         ELSE FirstRejected(expr.args[2])
    ELSE IF expr.kind = "call" /\ expr.function = "!_" /\ Len(expr.args) = 1
    THEN FirstRejected(expr.args[1])
    ELSE expr

IsUnsupportedCall(expr) == expr.kind = "call" /\ expr.function \notin SupportedFunctions

UnsupportedPublicMessage == <<W("unsupported filter operation")>>

C17_UnsupportedOperation ==
    (Done /\ Compiled /\ Ran("convertExpr") /\ Failed
        /\ IsUnsupportedCall(FirstRejected(call.celExpr.ast))) =>
        LET function == FirstRejected(call.celExpr.ast).function
        IN  /\ ErrorCodeOf(ret.err) = "UNSUPPORTED_OPERATION"
            /\ ErrorText(ret.err) = UnsupportedPublicMessage
            /\ F(function) \notin Range(ErrorText(ret.err))
            /\ ret.result = NilResult

(***************************************************************************)
(* C18.  In a comparison of field f with a non-null literal the literal's  *)
(* runtime kind must match f's declared type: on a mismatch the conversion *)
(* fails with code TYPE_MISMATCH, the public message does not hold f's     *)
(* name and the internal diagnostic does; on a match the check passes and  *)
(* the literal becomes the bound value.                                    *)
(***************************************************************************)
\* f <op> literal, f an identifier or field-select, the literal not null
IsLiteralComparison(expr) ==
    /\ expr.kind = "call"
    /\ expr.function \in DOMAIN ComparisonFunctions
    /\ Len(expr.args) = 2
    /\ expr.args[1].kind \in {"ident", "select"}
    /\ IsLiteral(expr.args[2])
    /\ expr.args[2] # Null

\* the runtime kind each declared scalar type admits
KindOfDeclaredType ==
    [string |-> "string", int |-> "int64", uint |-> "uint64", double |-> "float64",
     bool |-> "bool"]

\* the literal's kind is not the one f's declared type admits
KindMismatch(field, literal) ==
    /\ field \in DOMAIN Declarations
    /\ Declarations[field].Type \in DOMAIN KindOfDeclaredType
    /\ LiteralValue(literal).t # KindOfDeclaredType[Declarations[field].Type]

C18_TypeMismatch ==
    (Done /\ Compiled /\ Ran("convertExpr") /\ IsLiteralComparison(call.celExpr.ast)) =>
        LET e == call.celExpr.ast
            f == FieldOf(e.args[1])
        IN  /\ KindMismatch(f, e.args[2]) =>
                   /\ Failed
                   /\ ret.result = NilResult
                   /\ ErrorCodeOf(ret.err) = "TYPE_MISMATCH"
                   /\ F(f) \notin Range(ErrorText(ret.err))
                   /\ F(f) \in Range(ErrorText(ret.err.InternalError))
            /\ ~KindMismatch(f, e.args[2]) =>
                   /\ ~Failed
                   /\ ret.result # NilResult
                   /\ ret.result.Where.value = LiteralValue(e.args[2])

(***************************************************************************)
(* C19.  After NewConverter has returned, the converter's schema, policy   *)
(* and limits never change: no Convert or ConvertWithAuth call modifies    *)
(* them, and no entry the caller later sets in the FieldDeclarations or    *)
(* FieldACL map of the Config it passed in changes them or the outcome of  *)
(* a later conversion.                                                     *)
(***************************************************************************)
C19_FrozenAfterConstruction ==
    seen # NoSeen =>
        /\ TheConverter = seen.converter
        /\ RepeatsSeen =>
               /\ ret.result = seen.result
               /\ ErrorCodeOf(ret.err) = ErrorCodeOf(seen.err)

(***************************************************************************)
(* C20.  Rendering order.  An And / Or predicate renders as                *)
(* '(left AND right)' / '(left OR right)' with the bound values of the     *)
(* left child followed by those of the right child, so the bound values of *)
(* a predicate are the literals of the expression in source order; a Not   *)
(* predicate renders as 'NOT (inner)' with the inner bound values          *)
(* unchanged, and when the inner rendering fails it returns that error     *)
(* with empty text and no bound values.                                    *)
(***************************************************************************)
\* the predicates a predicate is made of, itself included
RECURSIVE SubPredicates(_)
SubPredicates(sqlizer) ==
    {sqlizer} \cup
        CASE sqlizer.kind \in {"And", "Or"} ->
                 SubPredicates(sqlizer.parts[1]) \cup SubPredicates(sqlizer.parts[2])
          [] sqlizer.kind = "notSqlizer" -> SubPredicates(sqlizer.inner)
          [] OTHER -> {}

\* how the rendering of a connective relates to the renderings of its children
RendersInOrder(sqlizer) ==
    LET whole == ToSql(sqlizer)
    IN  CASE sqlizer.kind \in {"And", "Or"} ->
                 LET left == ToSql(sqlizer.parts[1])
                     right == ToSql(sqlizer.parts[2])
                     word == IF sqlizer.kind = "And" THEN "AND" ELSE "OR"
                 IN  (left.err = NoErr /\ right.err = NoErr) =>
                         /\ whole.err = NoErr
                         /\ whole.sql = <<Op("(")>> \o left.sql \o <<Op(word)>>
                                            \o right.sql \o <<Op(")")>>
                         /\ whole.args = left.args \o right.args
          [] sqlizer.kind = "notSqlizer" ->
                 LET inner == ToSql(sqlizer.inner)
                 IN  IF inner.err # NoErr
                     THEN whole.err = inner.err /\ whole.sql = <<>> /\ whole.args = <<>>
                     ELSE /\ whole.err = NoErr
                          /\ whole.sql = <<Op("NOT"), Op("(")>> \o inner.sql \o <<Op(")")>>
                          /\ whole.args = inner.args
          [] OTHER -> TRUE

C20_RenderingOrder ==
    (Done /\ WasRendered) =>
        /\ rendered = ToSql(ret.result.Where)
        /\ \A p \in SubPredicates(ret.result.Where) : RendersInOrder(p)
        /\ rendered.err = NoErr => rendered.args = ExpectedArgs(call.celExpr.ast)

C20_Witness ==
    /\ Done
    /\ WasRendered
    /\ call.celExpr.ast = Call("_||_", Nil, <<CmpSalary, CmpStatus>>)
    /\ rendered.sql = <<Op("("), Col("salary"), Op(">"), Placeholder, Op("OR"),
                        Col("status_col"), Op("="), Placeholder, Op(")")>>
    /\ rendered.args = <<Value("int64", <<"1">>), Value("string", <<"a">>)>>

C20_WitnessNot ==
    /\ Done
    /\ WasRendered
    /\ call.celExpr.ast = NotChain(1, CmpSalary)
    /\ rendered.sql = <<Op("NOT"), Op("("), Col("salary"), Op(">"), Placeholder, Op(")")>>
    /\ rendered.args = <<Value("int64", <<"1">>)>>

C20_WitnessInnerFails ==
    /\ Done
    /\ WasRendered
    /\ call.celExpr.ast = NotChain(1, Call("_<_", Nil, <<Ident("salary"), Null>>))
    /\ rendered.err # NoErr
    /\ rendered.sql = <<>>
    /\ rendered.args = <<>>

(***************************************************************************)
(* C21.  The depth calculateExpressionDepth computes is the reference      *)
(* depth of every tree: 1 for a literal or a bare identifier; for a call,  *)
(* 1 + the greatest depth among its target (if present) and its arguments, *)
(* hence 1 for a call with neither; for a field-select, 1 + the depth of   *)
(* its operand; for a list, 1 + the greatest depth among its elements,     *)
(* hence 1 for an empty list; 0 for an absent node.                        *)
(***************************************************************************)
\* every node of a tree, absent targets included
RECURSIVE AllNodes(_)
AllNodes(expr) ==
    {expr} \cup
        CASE expr.kind = "call" ->
                 AllNodes(expr.target)
                     \cup UNION {AllNodes(expr.args[i]) : i \in 1..Len(expr.args)}
          [] expr.kind = "select" -> AllNodes(expr.operand)
          [] expr.kind = "list" ->
                 UNION {AllNodes(expr.elements[i]) : i \in 1..Len(expr.elements)}
          [] expr.kind = "struct" ->
                 UNION {AllNodes(expr.entries[i].key) \cup AllNodes(expr.entries[i].value)
                            : i \in 1..Len(expr.entries)}
          [] expr.kind = "comprehension" ->
                 AllNodes(expr.iterRange) \cup AllNodes(expr.loopStep)
          [] OTHER -> {}

\* the node kinds the reference definition speaks of
ReferenceKinds == {"nil", "const", "ident", "call", "select", "list"}

\* the tree is made of those kinds only
InReference(expr) == \A n \in AllNodes(expr) : n.kind \in ReferenceKinds

\* the greatest member of a finite set of naturals, 0 for the empty set
Greatest(S) == IF S = {} THEN 0 ELSE CHOOSE m \in S : \A x \in S : x <= m

\* the reference depth
RECURSIVE ReferenceDepth(_)
ReferenceDepth(expr) ==
    CASE expr.kind = "nil" -> 0
      [] expr.kind \in {"const", "ident"} -> 1
      [] expr.kind = "call" ->
             1 + Greatest({ReferenceDepth(expr.target)}
                              \cup {ReferenceDepth(expr.args[i]) : i \in 1..Len(expr.args)})
      [] expr.kind = "select" -> 1 + ReferenceDepth(expr.operand)
      [] expr.kind = "list" ->
             1 + Greatest({ReferenceDepth(expr.elements[i]) : i \in 1..Len(expr.elements)})
      [] OTHER -> 0

C21_DepthIsReferenceDepth ==
    (Done /\ Compiled /\ Ran("depth")) =>
        \A n \in AllNodes(call.celExpr.ast) :
            InReference(n) => calculateExpressionDepth(n) = ReferenceDepth(n)

\* a method call whose target is deeper than its argument has been measured
C21_Witness ==
    /\ Done
    /\ Ran("depth")
    /\ call.celExpr.ast = Call("contains", MetaOwner, <<StrA>>)
    /\ calculateExpressionDepth(call.celExpr.ast) = 3

\* a call with neither target nor arguments, and an empty list, have been measured
C21_WitnessEmpty ==
    /\ Done
    /\ Ran("depth")
    /\ \/ call.celExpr.ast = Call("_&&_", Nil, <<>>)
       \/ List(<<>>) \in AllNodes(call.celExpr.ast)
    /\ \E n \in AllNodes(call.celExpr.ast) :
           n.kind \in {"call", "list"} /\ calculateExpressionDepth(n) = 1

(***************************************************************************)
(* C22.  In ConvertWithAuth with a policy configured the depth guard runs  *)
(* before the authorization filter: an expression deeper than              *)
(* maxExpressionDepth is rejected as too deep before any field is checked  *)
(* against the policy, so an over-deep expression that also references an  *)
(* unauthorized field fails on its depth, with no UNAUTHORIZED_FIELD error *)
(* and no audit event.                                                     *)
(***************************************************************************)
\* a ConvertWithAuth call with a policy configured got as far as the compiled tree
AuthCallOnTree ==
    /\ Done
    /\ call.method = "ConvertWithAuth"
    /\ AuthConfigured
    /\ WithinLength
    /\ Compiled

C22_DepthBeforeAuthorization ==
    LET depth == calculateExpressionDepth(call.celExpr.ast)
    IN  (AuthCallOnTree /\ depth > maxExpressionDepth) =>
            /\ ret.result = NilResult
            /\ ret.err = DepthError(depth)
            /\ ErrorCodeOf(ret.err) # "UNAUTHORIZED_FIELD"
            /\ ~Ran("authorization")
            /\ auditLog = <<>>

(***************************************************************************)
(* C23.  Authorization coverage.  In every successful ConvertWithAuth call *)
(* with a policy configured, every field the predicate compiler resolves   *)
(* to a column (a bare identifier, the left operand of a comparison or of  *)
(* a membership test, a field-select, the receiver of a string operator)   *)
(* is in the set the authorization walk collected and was authorized for   *)
(* the caller's roles; no column of the predicate comes from a field the   *)
(* walk did not visit.                                                     *)
(***************************************************************************)
C23_AuthorizationCoverage ==
    (Done /\ call.method = "ConvertWithAuth" /\ AuthConfigured /\ ~Failed) =>
        LET resolved == Range(LeafFields(call.celExpr.ast))
            collected == Range(call.referencedFields)
        IN  /\ Ran("authorization")
            /\ resolved \subseteq collected
            /\ \A f \in resolved : isFieldAuthorized(f, call.userRoles)
            /\ Range(PredicateColumns(ret.result.Where))
                   \subseteq {mapFieldName(f) : f \in collected}

\* a field-select as left operand: both meta and owner were collected and authorized
C23_Witness ==
    /\ Done
    /\ call.method = "ConvertWithAuth"
    /\ AuthConfigured
    /\ ~Failed
    /\ call.celExpr.ast = CmpMeta
    /\ Range(call.referencedFields) = {"meta", "owner"}
    /\ ret.result.Where.column = "owner"

\* the receiver of a string operator, authorized through a role
C23_WitnessReceiver ==
    /\ Done
    /\ call.method = "ConvertWithAuth"
    /\ ~Failed
    /\ call.celExpr.ast = Call("contains", Ident("status"), <<StrA>>)
    /\ "status" \notin publicFields
    /\ "status" \in Range(call.referencedFields)

(***************************************************************************)
(* C24.  Every column of a produced predicate is the schema-resolved       *)
(* column of a field declared in the schema: for a field-select            *)
(* operand.field standing as the left side of a comparison or membership   *)
(* test or as the receiver of a string operator, the column is the         *)
(* resolved column of a declared field, never a name absent from the       *)
(* schema.                                                                 *)
(***************************************************************************)
\* the columns the schema resolves its declared fields to
SchemaColumns == {ResolveColumn(f) : f \in DOMAIN Declarations}

C24_ColumnsOfDeclaredFields ==
    (Done /\ ~Failed) =>
        /\ Range(LeafFields(call.celExpr.ast)) \subseteq DOMAIN Declarations
        /\ Range(PredicateColumns(ret.result.Where)) \subseteq SchemaColumns

(***************************************************************************)
(* C25.  The runtime type check is applied by the membership and string    *)
(* branches too: a membership list holding a literal whose runtime kind    *)
(* does not match the field's declared type, and a string operator whose   *)
(* argument is not a string literal or whose receiver field is not         *)
(* declared with string type, each fail with code TYPE_MISMATCH and        *)
(* return no predicate.                                                    *)
(***************************************************************************)
\* f in [literals] where some literal's kind is not the one f's type admits
IsMismatchedMembership(expr) ==
    /\ IsLiteralMembership(expr)
    /\ \E i \in 1..Len(expr.args[2].elements) :
           KindMismatch(FieldOf(expr.args[1]), expr.args[2].elements[i])

\* f.op(x) where x is not a string literal or f is not declared as a string
IsMistypedStringOp(expr) ==
    /\ expr.kind = "call"
    /\ expr.function \in StringFunctions
    /\ expr.target.kind \in {"ident", "select"}
    /\ Len(expr.args) = 1
    /\ \/ ~(expr.args[1].kind = "const" /\ expr.args[1].ckind = "string")
       \/ FieldOf(expr.target) \notin DOMAIN Declarations
       \/ Declarations[FieldOf(expr.target)].Type # "string"

C25_TypeCheckInAllBranches ==
    (Done /\ Compiled /\ Ran("convertExpr")
          /\ (IsMismatchedMembership(call.celExpr.ast)
                  \/ IsMistypedStringOp(call.celExpr.ast))) =>
        /\ Failed
        /\ ret.result = NilResult
        /\ ErrorCodeOf(ret.err) = "TYPE_MISMATCH"

(***************************************************************************)
(* C26.  Arity violations are internal faults, not user errors: an AND or  *)
(* OR node with other than 2 children, a NOT node with other than 1, a     *)
(* comparison or membership node with other than 2 arguments and a string  *)
(* operator with other than 1 argument each produce no predicate and fail  *)
(* outside the ConversionError channel: the returned error carries no      *)
(* ConversionError code.                                                   *)
(***************************************************************************)
\* the number of operands each supported function takes
Arity(function) ==
    IF function = "!_" \/ function \in StringFunctions THEN 1 ELSE 2

IsArityViolation(expr) ==
    /\ expr.kind = "call"
    /\ expr.function \in SupportedFunctions
    /\ Len(expr.args) # Arity(expr.function)

C26_ArityFaults ==
    (Done /\ Compiled /\ Ran("convertExpr")
          /\ IsArityViolation(FirstRejected(call.celExpr.ast))) =>
        LET node == FirstRejected(call.celExpr.ast)
        IN  /\ Failed
            /\ ret.result = NilResult
            /\ ErrorCodeOf(ret.err) = "none"
            /\ \A i \in 1..Len(ErrorChain(ret.err)) :
                   ErrorChain(ret.err)[i].type # "ConversionError"
            /\ N(Len(node.args)) \in Range(ErrorText(ret.err))

\* a NOT node with two children
C26_Witness ==
    /\ Done
    /\ call.celExpr.ast = Call("!_", Nil, <<CmpStatus, CmpStatus>>)
    /\ Failed
    /\ ErrorText(ret.err) = <<W("failed to convert CEL to SQL:"),
                              W("NOT operator requires exactly 1 argument, got"), N(2)>>

\* a comparison with one argument, met as the right child of an AND
C26_WitnessNested ==
    /\ Done
    /\ call.celExpr.ast =
           Call("_&&_", Nil, <<CmpStatus, Call("_==_", Nil, <<Ident("status")>>)>>)
    /\ Failed
    /\ ret.err.unwrap.type = "error"

\* a string operator with no argument, a membership test with one
C26_WitnessLeaves ==
    /\ Done
    /\ Failed
    /\ Ran("convertExpr")
    /\ call.celExpr.ast \in {Call("contains", Ident("status"), <<>>),
                             Call("@in", Nil, <<Ident("status")>>)}

(***************************************************************************)
(* C27.  Whenever Convert succeeds, rendering the returned predicate       *)
(* succeeds and gives a non-empty text; in particular a comparison with an *)
(* ordering operator (<, <=, >, >=) whose right operand is the null        *)
(* literal never gives a Comparison predicate that carries a null value: a *)
(* null right operand ends in a null check or in a conversion error.       *)
(***************************************************************************)
\* an ordering comparison that carries nil as its value
IsOrderingWithNull(sqlizer) ==
    /\ sqlizer.kind \in {"Lt", "LtOrEq", "Gt", "GtOrEq"}
    /\ sqlizer.value = NilValue

C27_SuccessRenders ==
    (Done /\ call.method = "Convert" /\ ~Failed) =>
        /\ \A p \in SubPredicates(ret.result.Where) : ~IsOrderingWithNull(p)
        /\ WasRendered => (rendered.err = NoErr /\ rendered.sql # <<>>)

(***************************************************************************)
(* C28.  Every ConvertWithAuth call that fails with UNAUTHORIZED_FIELD has *)
(* reported, before it returns, exactly one audit event to the security    *)
(* logger, carrying the offending field, the full source expression and    *)
(* the caller's roles; a call that does not fail on authorization reports  *)
(* no such event.  This holds for every converter NewConverter returns.    *)
(***************************************************************************)
\* the audit events of the last call that report an unauthorized field
UnauthorizedEvents == SelectSeq(auditLog, LAMBDA e : e.event = "LogUnauthorizedField")

C28_AuditOnDenial ==
    (Done /\ call.method = "ConvertWithAuth") =>
        IF ErrorCodeOf(ret.err) = "UNAUTHORIZED_FIELD"
        THEN /\ Len(UnauthorizedEvents) = 1
             /\ UnauthorizedEvents[1].expr = call.celExpr
             /\ UnauthorizedEvents[1].userRoles = call.userRoles
             /\ F(UnauthorizedEvents[1].field) \in Range(ErrorText(ret.err.InternalError))
        ELSE UnauthorizedEvents = <<>>

(***************************************************************************)
(* C29.  When an expression references two or more fields that are not     *)
(* authorized for the caller, the conversion is aborted at the first       *)
(* unauthorized field in tree-walk order, and the field the internal       *)
(* diagnostic (and the audit event) names is that same field on every run  *)
(* with the same expression, policy and roles.                             *)
(***************************************************************************)
\* concatenation of a sequence of sequences
RECURSIVE Flatten(_)
Flatten(ss) == IF ss = <<>> THEN <<>> ELSE Head(ss) \o Flatten(Tail(ss))

\* the field names in the order the walk meets them: a node, then the target,
\* the arguments, the operand, the elements, the entries
RECURSIVE FieldsInWalkOrder(_)
FieldsInWalkOrder(expr) ==
    CASE expr.kind = "ident" -> <<expr.name>>
      [] expr.kind = "select" -> <<expr.field>> \o FieldsInWalkOrder(expr.operand)
      [] expr.kind = "call" ->
             FieldsInWalkOrder(expr.target)
                 \o Flatten([i \in 1..Len(expr.args) |-> FieldsInWalkOrder(expr.args[i])])
      [] expr.kind = "list" ->
             Flatten([i \in 1..Len(expr.elements) |-> FieldsInWalkOrder(expr.elements[i])])
      [] expr.kind = "struct" ->
             Flatten([i \in 1..Len(expr.entries) |->
                         FieldsInWalkOrder(expr.entries[i].key)
                             \o FieldsInWalkOrder(expr.entries[i].value)])
      [] OTHER -> <<>>

C29_FirstUnauthorizedInWalkOrder ==
    (Done /\ call.method = "ConvertWithAuth"
          /\ ErrorCodeOf(ret.err) = "UNAUTHORIZED_FIELD") =>
        LET denied == SelectSeq(FieldsInWalkOrder(call.celExpr.ast),
                                LAMBDA f : ~Permitted(f, call.userRoles))
        IN  /\ denied # <<>>
            /\ ret.err = UnauthorizedError(denied[1], call.userRoles)
            /\ RepeatsSeen => ret.err = seen.err

(***************************************************************************)
(* C30.  Leaf dispatch.  A bare boolean literal, at top level or as a      *)
(* child of AND / OR / NOT, becomes the constant predicate TRUE / FALSE,   *)
(* rendered as that token with no bound value; a bare identifier becomes   *)
(* the comparison resolved-column = true, with the single bound value      *)
(* true; a non-boolean literal in predicate position and every node that   *)
(* is no call, identifier or literal (field-select, list, struct,          *)
(* comprehension) is rejected with an error and no predicate.              *)
(***************************************************************************)
\* the nodes in predicate position that are not calls
PredicateLeaves(expr) == {n \in ConvertedNodes(expr) : n.kind # "call"}

\* the predicate a leaf must become; NilSqlizer when it must be rejected
LeafPredicate(leaf) ==
    CASE leaf = BoolTrue -> Expr("TRUE")
      [] leaf = BoolFalse -> Expr("FALSE")
      [] leaf.kind = "ident" ->
             Cmp("Eq", ResolveColumn(leaf.name), Value("bool", <<"true">>))
      [] OTHER -> NilSqlizer

\* the rendering a leaf's predicate must have
LeafRendering(leaf) ==
    CASE leaf = BoolTrue -> Rendered(<<Op("TRUE")>>, <<>>)
      [] leaf = BoolFalse -> Rendered(<<Op("FALSE")>>, <<>>)
      [] OTHER -> Rendered(<<Col(ResolveColumn(leaf.name)), Op("="), Placeholder>>,
                           <<Value("bool", <<"true">>)>>)

C30_LeafDispatch ==
    (Done /\ Compiled /\ Ran("convertExpr")) =>
        \A leaf \in PredicateLeaves(call.celExpr.ast) :
            LET conv == convertExpr(leaf)
                top == leaf = call.celExpr.ast
            IN  IF LeafPredicate(leaf) = NilSqlizer
                THEN /\ conv.err.type # "nil"
                     /\ conv.sqlizer = NilSqlizer
                     /\ (top \/ FirstRejected(call.celExpr.ast) = leaf) =>
                            Failed /\ ret.result = NilResult
                ELSE /\ conv.err.type = "nil"
                     /\ conv.sqlizer = LeafPredicate(leaf)
                     /\ ToSql(conv.sqlizer) = LeafRendering(leaf)
                     /\ ~Failed => LeafPredicate(leaf) \in SubPredicates(ret.result.Where)
                     /\ top => /\ ~Failed
                               /\ ret.result.Where = LeafPredicate(leaf)
                               /\ WasRendered => rendered = LeafRendering(leaf)

\* false at top level, rendered
C30_Witness ==
    /\ Done
    /\ call.celExpr.ast = BoolFalse
    /\ WasRendered
    /\ rendered.sql = <<Op("FALSE")>>
    /\ rendered.args = <<>>

\* a bare identifier at top level, rendered
C30_WitnessIdentifier ==
    /\ Done
    /\ call.celExpr.ast = Ident("active")
    /\ WasRendered
    /\ rendered.sql = <<Col("is_active"), Op("="), Placeholder>>
    /\ rendered.args = <<Value("bool", <<"true">>)>>

\* true as the child of a NOT, rendered
C30_WitnessChild ==
    /\ Done
    /\ call.celExpr.ast = NotChain(1, BoolTrue)
    /\ WasRendered
    /\ rendered.sql = <<Op("NOT"), Op("("), Op("TRUE"), Op(")")>>
    /\ rendered.args = <<>>

\* rejected leaves: a non-boolean literal, a list, a struct, a field-select, a
\* comprehension
C30_WitnessRejected ==
    /\ Done
    /\ Ran("convertExpr")
    /\ Failed
    /\ ret.result = NilResult
    /\ FirstRejected(call.celExpr.ast).kind \in {"const", "list", "struct", "select",
                                                 "comprehension"}

====
